---------------------------- MODULE Spec2Model ----------------------------
(***************************************************************************)
(* Model of the PG-listing backend: the Express server (server.js, here    *)
(* src/unnamed/part_001), the PGListing mongoose model, the pgController   *)
(* and the pg router.                                                      *)
(*                                                                         *)
(* Strings are sequences of one-character strings, so that trimming, slug  *)
(* generation and regular-expression matching are computed character by    *)
(* character as the JavaScript does.  The rate limiter, CORS and helmet    *)
(* middleware are not modelled.                                            *)
(***************************************************************************)
EXTENDS Integers, Sequences, FiniteSets, TLC

(***************************************************************************)
(* Bounds of the model.                                                    *)
(***************************************************************************)
MaxResolveListings == 2  \* listings created while resolving identifiers
MaxIdLen == 3            \* length of the enumerated free-form identifiers
MaxQueryListings == 2    \* listings created while querying with filters
MaxPriceListings == 3    \* listings created while querying by price
MaxPageListings == 25    \* listings created while reading pages
MaxInFlight == 2         \* requests of several steps handled at the same time
MaxReviews == 3          \* reviews inserted while reviewing one after the other
MaxRaceReviews == 2      \* reviews inserted while requests overlap
MaxAuthorReviews == 2    \* reviews inserted while users act on each other's reviews
MaxBookings == 2         \* bookings created
MaxKeyListings == 5         \* listings ever created in the API key runs
MaxMissingListings == 2     \* listings ever created in the missing-listing runs
MaxIdListings == 2          \* listings ever created in the id strategy runs
MaxStaleReviews == 3        \* reviews inserted in the runs that start from stale ratings
MaxFailureReviews == 3      \* reviews inserted in the runs with failing listing writes
MaxRangeListings == 5       \* listings ever created in the runs on the range of ratings
MaxRangeReviews == 2        \* reviews inserted in the runs on the range of ratings
MaxIntegrityListings == 2   \* listings ever created in the runs on the reviews' references
MaxIntegrityReviews == 2    \* reviews inserted in the runs on the reviews' references
MaxFlagListings == 5        \* listings ever created in the runs on the connection flag

(***************************************************************************)
(* Characters and strings.                                                 *)
(***************************************************************************)
UpperLetters ==
  <<"A", "B", "C", "D", "E", "F", "G", "H", "I", "J", "K", "L", "M",
    "N", "O", "P", "Q", "R", "S", "T", "U", "V", "W", "X", "Y", "Z">>

LowerLetters ==
  <<"a", "b", "c", "d", "e", "f", "g", "h", "i", "j", "k", "l", "m",
    "n", "o", "p", "q", "r", "s", "t", "u", "v", "w", "x", "y", "z">>

Digits == {"0", "1", "2", "3", "4", "5", "6", "7", "8", "9"}

Range(f) == {f[i] : i \in DOMAIN f}

LowerCaseOf == [i \in DOMAIN UpperLetters |-> LowerLetters[i]]

ToLowerMap == [c \in Range(UpperLetters) |->
                 LowerCaseOf[CHOOSE i \in DOMAIN UpperLetters : UpperLetters[i] = c]]

LowerOf(c) == IF c \in DOMAIN ToLowerMap THEN ToLowerMap[c] ELSE c

\* String.prototype.toLowerCase
ToLowerCase(s) == [i \in 1..Len(s) |-> LowerOf(s[i])]

\* \s of a JavaScript regular expression
IsWhitespace(c) == c = " "

SlugChars == Range(LowerLetters) \cup Digits \cup {"-"}

\* [a-z0-9-], the characters the slug keeps
IsSlugChar(c) == c \in SlugChars

HexChars == Digits \cup {"a", "b", "c", "d", "e", "f", "A", "B", "C", "D", "E", "F"}

\* [0-9a-fA-F]
IsHexChar(c) == c \in HexChars

WordChars == Range(LowerLetters) \cup Range(UpperLetters) \cup Digits \cup {"_"}

\* \w of a JavaScript regular expression: [A-Za-z0-9_]
IsWordChar(c) == c \in WordChars

RECURSIVE TrimStart(_)
TrimStart(s) ==
  IF s # <<>> /\ IsWhitespace(Head(s)) THEN TrimStart(Tail(s)) ELSE s

RECURSIVE TrimEnd(_)
TrimEnd(s) ==
  IF s # <<>> /\ IsWhitespace(s[Len(s)])
  THEN TrimEnd(SubSeq(s, 1, Len(s) - 1))
  ELSE s

\* String.prototype.trim
Trim(s) == TrimEnd(TrimStart(s))

\* s.replace(/\s+/g, '-')
RECURSIVE ReplaceWhitespaceRuns(_)
ReplaceWhitespaceRuns(s) ==
  IF s = <<>> THEN <<>>
  ELSE IF IsWhitespace(Head(s))
       THEN <<"-">> \o ReplaceWhitespaceRuns(TrimStart(s))
       ELSE <<Head(s)>> \o ReplaceWhitespaceRuns(Tail(s))

\* s.replace(/[^a-z0-9-]/g, '')
RemoveNonSlugChars(s) == SelectSeq(s, IsSlugChar)

\* s.replace(/-+/g, '-')
RECURSIVE CollapseHyphens(_)
CollapseHyphens(s) ==
  IF s = <<>> THEN <<>>
  ELSE IF Head(s) = "-" /\ Len(s) > 1 /\ s[2] = "-"
       THEN CollapseHyphens(Tail(s))
       ELSE <<Head(s)>> \o CollapseHyphens(Tail(s))

\* the slug POST /api/pg and PUT /api/pg/:id generate from a name
GenerateSlug(name) ==
  CollapseHyphens(RemoveNonSlugChars(ReplaceWhitespaceRuns(ToLowerCase(name))))

(***************************************************************************)
(* Regular expressions.  A pattern is a sequence of tokens: a literal      *)
(* character, "." (any character) or the optional class [-s]?.  Matching   *)
(* is case-insensitive ($options: 'i').                                    *)
(***************************************************************************)
Lit(c) == [kind |-> "lit", ch |-> c]
AnyChar == [kind |-> "any", ch |-> "."]
OptHyphenS == [kind |-> "opt", ch |-> "-s"]

\* the pattern a user-supplied string denotes when it is used as $regex
RegexOf(s) == [i \in 1..Len(s) |-> IF s[i] = "." THEN AnyChar ELSE Lit(s[i])]

TokenMatches(t, c) ==
  CASE t.kind = "lit" -> LowerOf(t.ch) = LowerOf(c)
    [] t.kind = "any" -> TRUE
    [] OTHER -> LowerOf(c) \in {"-", "s"}

\* does the pattern match a prefix of s, and which suffixes may remain
RECURSIVE MatchRests(_, _)
MatchRests(p, s) ==
  IF p = <<>> THEN {s}
  ELSE LET t == Head(p)
           step == IF s # <<>> /\ TokenMatches(t, Head(s))
                   THEN MatchRests(Tail(p), Tail(s))
                   ELSE {}
       IN IF t.kind = "opt" THEN step \cup MatchRests(Tail(p), s) ELSE step

\* ^pattern$
MatchesWhole(p, s) == <<>> \in MatchRests(p, s)

\* the pattern found anywhere in s
MatchesSomewhere(p, s) ==
  \E i \in 1..(Len(s) + 1) : MatchRests(p, SubSeq(s, i, Len(s))) # {}

(***************************************************************************)
(* State.                                                                  *)
(***************************************************************************)
VARIABLES
  listings,            \* the PGListing collection, in natural (insertion) order
  nextId,              \* how many ObjectIds the store has handed out
  isMongoDBConnected,  \* the server's connection flag
  strictQuery,         \* mongoose's strictQuery setting of the build
  res,                 \* the last request and the response it got
  reviews,             \* the Review collection, in insertion order
  nextReviewId,        \* how many reviews the store has been asked to insert
  requests,            \* the requests being handled, by slot, with their position
  bookings             \* the Booking collection, in insertion order

vars ==
  <<listings, nextId, isMongoDBConnected, strictQuery, res,
    reviews, nextReviewId, requests, bookings>>

\* what a listing handler of the server never touches
otherVars == <<reviews, nextReviewId, requests, bookings>>

\* the slots in which requests that take several steps are handled
Slots == 1..MaxInFlight

\* a slot that handles no request
Idle ==
  [op |-> "idle", pc |-> "idle", user |-> "", target |-> <<>>, review |-> <<>>,
   rating |-> 0, title |-> "", comment |-> "", count |-> 0, sum |-> 0, status |-> "",
   body |-> <<>>]

IdLen == 24

\* the n-th ObjectId the store assigns, as its 24 hexadecimal characters
ObjectIdOf(n) ==
  LET hex == <<"0", "1", "2", "3", "4", "5", "6", "7", "8", "9", "a", "b", "c", "d", "e", "f">>
  IN [i \in 1..IdLen |-> IF i = IdLen THEN hex[(n % 16) + 1]
                         ELSE IF i = IdLen - 1 THEN hex[((n \div 16) % 16) + 1]
                         ELSE "a"]

\* mutant: the pattern without its length
IsObjectIdStringAnyLength(s) == \A i \in 1..Len(s) : IsHexChar(s[i])

\* /^[0-9a-fA-F]{24}$/.test(id); mongoose.Types.ObjectId.isValid agrees on
\* every string that has not 12 characters
IsObjectIdString(s) == Len(s) = IdLen /\ \A i \in 1..Len(s) : IsHexChar(s[i])

\* mongoose.Types.ObjectId.isValid(s): 24 hexadecimal characters, or any 12
\* characters (the bytes of an ObjectId)
ObjectIdIsValid(s) == Len(s) = 12 \/ (Len(s) = IdLen /\ \A i \in 1..Len(s) : IsHexChar(s[i]))

DefaultCity == <<"C", "h", "a", "n", "d", "i", "g", "a", "r", "h">>

ListingTypes == {"boys", "girls", "co-ed", "family"}

\* the positions of the collection, in natural order
Positions == 1..Len(listings)

\* findOne: the first of the positions that match, 0 if none
FirstIndex(matching) ==
  IF matching = {} THEN 0
  ELSE CHOOSE i \in matching : \A j \in matching : i <= j

IndexOfId(id) == FirstIndex({i \in Positions : listings[i]._id = ToLowerCase(id)})

(***************************************************************************)
(* PGListingSchema: casting and validation of a document before it is      *)
(* saved.  The schema declares no slug path, so a slug handed to the model *)
(* is dropped (strict mode); name and city are trimmed.                    *)
(***************************************************************************)
SchemaCast(data) ==
  [name |-> Trim(data.name),
   description |-> data.description,
   city |-> Trim(data.city),
   locality |-> data.locality,
   address |-> data.address,
   price |-> data.price,
   type |-> data.type,
   published |-> data.published,
   verified |-> data.verified,
   featured |-> data.featured,
   rating |-> data.rating,
   reviewCount |-> data.reviewCount]

\* ratings are held in tenths: max: 5
MaxRating == 50

SchemaValid(doc) ==
  /\ doc.name # <<>>
  /\ doc.city # <<>>
  /\ doc.price >= 0
  /\ doc.type \in ListingTypes
  /\ doc.rating >= 0
  /\ doc.rating <= MaxRating

(***************************************************************************)
(* Responses: the request (op, req), the answer, the calls made on the     *)
(* model (queries) and the connection flag the handler saw (connected).    *)
(***************************************************************************)
Response(op, req, status, success, message, foundBy, data, total, queries) ==
  [op |-> op, req |-> req, status |-> status, success |-> success,
   message |-> message, foundBy |-> foundBy, data |-> data, total |-> total,
   queries |-> queries, connected |-> isMongoDBConnected]

NoResponse ==
  [op |-> "none", req |-> <<>>, status |-> 0, success |-> FALSE, message |-> "",
   foundBy |-> "", data |-> <<>>, total |-> 0, queries |-> <<>>, connected |-> FALSE]

(***************************************************************************)
(* apiKeyMiddleware.  A route of publicRoutes with a parameter is turned   *)
(* into ^/api/pg/\w+$ and tested against the (still encoded) request path, *)
(* whatever the method.                                                    *)
(***************************************************************************)
ApiKeys == {"none", "wrong", "valid"}

IsPublicIdPath(id) == id # <<>> /\ \A i \in 1..Len(id) : IsWordChar(id[i])

\* "next" when the request goes on to its handler, else the status it ends with
ApiKeyMiddleware(isPublicRoute, apiKey) ==
  IF isPublicRoute THEN "next"
  ELSE IF apiKey = "none" THEN "401"
  ELSE IF apiKey # "valid" THEN "403"
  ELSE "next"

GateResponse(op, req, gate) ==
  IF gate = "401"
  THEN Response(op, req, 401, FALSE, "API key is required", "", <<>>, 0, <<>>)
  ELSE Response(op, req, 403, FALSE, "Invalid API key", "", <<>>, 0, <<>>)

(***************************************************************************)
(* mongoose.connection events.                                             *)
(***************************************************************************)
ConnectionEvents == {"connecting", "connected", "open", "error", "disconnected", "reconnected"}

FlagAfter(event) == event \in {"connected", "open", "reconnected"}

ConnectionEvent(event) ==
  /\ isMongoDBConnected' = FlagAfter(event)
  /\ UNCHANGED <<listings, nextId, strictQuery, res, otherVars>>

(***************************************************************************)
(* GET /api/pg/:id                                                         *)
(***************************************************************************)
\* name: { $regex: `^${id.replace(/[-\s]/g, '[-\s]?')}$`, $options: 'i' }
\* (inside the template literal \s is the letter s)
NamePattern(id) ==
  [i \in 1..Len(id) |->
     IF id[i] = "-" \/ IsWhitespace(id[i]) THEN OptHyphenS
     ELSE IF id[i] = "." THEN AnyChar
     ELSE Lit(id[i])]

\* findById(id)
ByIdIndex(id) == IndexOfId(id)

\* findOne({ slug: id }): no document stores a slug; with strictQuery the
\* unknown path is removed from the filter, which then matches every document
BySlugIndex(id) == IF strictQuery THEN FirstIndex(Positions) ELSE 0

\* findOne({ name: { $regex: ^...$ } })
ByNameIndex(id) == FirstIndex({i \in Positions : MatchesWhole(NamePattern(id), listings[i].name)})

\* casting { _id: id } of the broad filter fails unless id is an ObjectId string
BroadCastFails(id) == ~ObjectIdIsValid(id)

BroadMatches(id, d) ==
  \/ MatchesSomewhere(RegexOf(id), d.name)
  \/ MatchesSomewhere(RegexOf(id), d.address)
  \/ MatchesSomewhere(RegexOf(id), d.city)
  \/ MatchesSomewhere(RegexOf(id), d.locality)
  \/ d._id = ToLowerCase(id)

ByBroadIndex(id) == FirstIndex({i \in Positions : BroadMatches(id, listings[i])})

Found(rawId, by, i, queries) ==
  Response("getById", rawId, 200, TRUE, "", by, <<listings[i]>>, 0, queries)

\* strategies 2 to 4 and the not-found answer, after the queries already made
ResolveFromSlug(rawId, id, q) ==
  IF BySlugIndex(id) # 0
  THEN Found(rawId, "slug", BySlugIndex(id), q \o <<"findOne:slug">>)
  ELSE IF ByNameIndex(id) # 0
  THEN Found(rawId, "name", ByNameIndex(id), q \o <<"findOne:slug", "findOne:name">>)
  ELSE IF BroadCastFails(id)
  THEN Response("getById", rawId, 500, FALSE, "Server error", "", <<>>, 0,
                q \o <<"findOne:slug", "findOne:name", "findOne:broad">>)
  ELSE IF ByBroadIndex(id) # 0
  THEN Found(rawId, "broad", ByBroadIndex(id),
             q \o <<"findOne:slug", "findOne:name", "findOne:broad">>)
  ELSE Response("getById", rawId, 404, FALSE, "PG listing not found", "", <<>>, 0,
                q \o <<"findOne:slug", "findOne:name", "findOne:broad", "find:all">>)

IsMissingId(rawId) ==
  \/ rawId = <<>>
  \/ rawId = <<"u", "n", "d", "e", "f", "i", "n", "e", "d">>
  \/ rawId = <<"n", "u", "l", "l">>

\* mutant: the id strategy is not tried before the looser ones
GetPGByIdHandlerLooseFirst(rawId) ==
  IF IsMissingId(rawId)
  THEN Response("getById", rawId, 400, FALSE, "PG ID is required", "", <<>>, 0, <<>>)
  ELSE IF ~isMongoDBConnected
  THEN Response("getById", rawId, 500, FALSE, "Database not connected", "", <<>>, 0, <<>>)
  ELSE ResolveFromSlug(rawId, Trim(rawId), <<>>)

\* mutant: the literal 'null' is not rejected
GetPGByIdHandlerNullAccepted(rawId) ==
  IF rawId = <<>> \/ rawId = <<"u", "n", "d", "e", "f", "i", "n", "e", "d">>
  THEN Response("getById", rawId, 400, FALSE, "PG ID is required", "", <<>>, 0, <<>>)
  ELSE IF ~isMongoDBConnected
  THEN Response("getById", rawId, 500, FALSE, "Database not connected", "", <<>>, 0, <<>>)
  ELSE ResolveFromSlug(rawId, Trim(rawId), <<>>)

GetPGByIdHandler(rawId) ==
  IF IsMissingId(rawId)
  THEN Response("getById", rawId, 400, FALSE, "PG ID is required", "", <<>>, 0, <<>>)
  ELSE IF ~isMongoDBConnected
  THEN Response("getById", rawId, 500, FALSE, "Database not connected", "", <<>>, 0, <<>>)
  ELSE LET id == Trim(rawId) IN
       IF ObjectIdIsValid(id) /\ IsObjectIdString(id)
       THEN IF ByIdIndex(id) # 0
            THEN Found(rawId, "ObjectId", ByIdIndex(id), <<"findById">>)
            ELSE ResolveFromSlug(rawId, id, <<"findById">>)
       ELSE ResolveFromSlug(rawId, id, <<>>)

GetPGById(rawId, apiKey) ==
  /\ LET gate == ApiKeyMiddleware(IsPublicIdPath(rawId), apiKey) IN
       res' = IF gate = "next" THEN GetPGByIdHandler(rawId)
              ELSE GateResponse("getById", rawId, gate)
  /\ UNCHANGED <<listings, nextId, isMongoDBConnected, strictQuery, otherVars>>

(***************************************************************************)
(* Request bodies and query strings are functions from the names of the    *)
(* fields present to their values.                                         *)
(***************************************************************************)
Has(o, f) == f \in DOMAIN o

\* o[f] || dflt, for a string held as a sequence of characters
OrSeq(o, f, dflt) == IF Has(o, f) /\ o[f] # <<>> THEN o[f] ELSE dflt

\* o[f] || dflt, for an enumeration-like string
OrText(o, f, dflt) == IF Has(o, f) /\ o[f] # "" THEN o[f] ELSE dflt

\* o[f] || dflt, for a number
OrNum(o, f, dflt) == IF Has(o, f) /\ o[f] # 0 THEN o[f] ELSE dflt

\* o[f] || false
OrFalse(o, f) == Has(o, f) /\ o[f]

(***************************************************************************)
(* POST /api/pg                                                            *)
(***************************************************************************)
ListingData(body) ==
  [name |-> body.name,
   slug |-> GenerateSlug(body.name),
   description |-> OrSeq(body, "description", <<>>),
   city |-> OrSeq(body, "city", DefaultCity),
   locality |-> OrSeq(body, "locality", <<>>),
   address |-> OrSeq(body, "address", <<>>),
   price |-> body.price,
   type |-> OrText(body, "type", "boys"),
   published |-> IF Has(body, "published") THEN body.published ELSE TRUE,
   verified |-> OrFalse(body, "verified"),
   featured |-> OrFalse(body, "featured"),
   rating |-> OrNum(body, "rating", 0),
   reviewCount |-> OrNum(body, "reviewCount", 0)]

\* new PGListing(data).save(): the stored document
NewDocument(data) ==
  SchemaCast(data) @@ [_id |-> ObjectIdOf(nextId + 1), createdAt |-> nextId + 1]

PostPG(body) ==
  /\ IF ~isMongoDBConnected
     THEN /\ res' = Response("post", body, 500, FALSE, "Database not connected", "", <<>>, 0, <<>>)
          /\ UNCHANGED <<listings, nextId>>
     ELSE IF ~Has(body, "name") \/ body.name = <<>>
     THEN /\ res' = Response("post", body, 400, FALSE, "Name is required", "", <<>>, 0, <<>>)
          /\ UNCHANGED <<listings, nextId>>
     ELSE IF ~Has(body, "price") \/ body.price = 0
     THEN /\ res' = Response("post", body, 400, FALSE, "Price is required", "", <<>>, 0, <<>>)
          /\ UNCHANGED <<listings, nextId>>
     ELSE IF ~SchemaValid(SchemaCast(ListingData(body)))
     THEN /\ res' = Response("post", body, 500, FALSE, "Failed to create listing", "", <<>>, 0,
                             <<"save">>)
          /\ UNCHANGED <<listings, nextId>>
     ELSE /\ listings' = Append(listings, NewDocument(ListingData(body)))
          /\ nextId' = nextId + 1
          /\ res' = Response("post", body, 201, TRUE, "PG listing created successfully",
                             "", <<NewDocument(ListingData(body))>>, 0,
                             <<"save">>)
  /\ UNCHANGED <<isMongoDBConnected, strictQuery, otherVars>>

(***************************************************************************)
(* PUT /api/pg/:id                                                         *)
(***************************************************************************)
\* the paths of $set that the schema knows, cast (slug is dropped)
UpdateData(body) ==
  [f \in DOMAIN body \cap {"name", "description", "city", "locality", "address", "price",
                           "type", "published", "verified", "featured", "rating",
                           "reviewCount"} |->
     IF f \in {"name", "city"} THEN Trim(body[f]) ELSE body[f]]

\* findByIdAndUpdate(id, { $set: update }): the document after the update
ApplyUpdate(doc, update) ==
  [f \in DOMAIN doc |-> IF f \in DOMAIN update THEN update[f] ELSE doc[f]]

\* runValidators: the validators of the paths being set
UpdateValid(update) ==
  /\ Has(update, "name") => update.name # <<>>
  /\ Has(update, "city") => update.city # <<>>
  /\ Has(update, "price") => update.price >= 0
  /\ Has(update, "type") => update.type \in ListingTypes
  /\ Has(update, "rating") => update.rating >= 0 /\ update.rating <= MaxRating

ReplaceAt(seq, i, d) == [seq EXCEPT ![i] = d]

RemoveAt(seq, i) == SubSeq(seq, 1, i - 1) \o SubSeq(seq, i + 1, Len(seq))

PutPG(listingId, body) ==
  /\ IF ~isMongoDBConnected
     THEN /\ res' = Response("put", listingId, 500, FALSE, "Database not connected", "", <<>>, 0, <<>>)
          /\ UNCHANGED listings
     ELSE IF ~IsObjectIdString(listingId)
     THEN /\ res' = Response("put", listingId, 400, FALSE, "Invalid listing ID format", "", <<>>, 0, <<>>)
          /\ UNCHANGED listings
     ELSE IF IndexOfId(listingId) = 0
     THEN /\ res' = Response("put", listingId, 404, FALSE, "Listing not found", "", <<>>, 0,
                             <<"findById">>)
          /\ UNCHANGED listings
     ELSE IF ~UpdateValid(UpdateData(body))
     THEN /\ res' = Response("put", listingId, 500, FALSE, "Failed to update listing", "", <<>>, 0,
                             <<"findById", "findByIdAndUpdate">>)
          /\ UNCHANGED listings
     ELSE LET i == IndexOfId(listingId)
              d == ApplyUpdate(listings[i], UpdateData(body))
          IN /\ listings' = ReplaceAt(listings, i, d)
             /\ res' = Response("put", listingId, 200, TRUE, "Listing updated successfully", "",
                                <<d>>, 0, <<"findById", "findByIdAndUpdate">>)
  /\ UNCHANGED <<nextId, isMongoDBConnected, strictQuery, otherVars>>

(***************************************************************************)
(* DELETE /api/pg/:id                                                      *)
(***************************************************************************)
DeletePG(listingId) ==
  /\ IF ~isMongoDBConnected
     THEN /\ res' = Response("delete", listingId, 500, FALSE, "Database not connected", "", <<>>, 0, <<>>)
          /\ UNCHANGED listings
     ELSE IF ~IsObjectIdString(listingId)
     THEN /\ res' = Response("delete", listingId, 400, FALSE, "Invalid listing ID format", "", <<>>, 0, <<>>)
          /\ UNCHANGED listings
     ELSE IF IndexOfId(listingId) = 0
     THEN /\ res' = Response("delete", listingId, 404, FALSE, "Listing not found", "", <<>>, 0,
                             <<"findById">>)
          /\ UNCHANGED listings
     ELSE /\ listings' = RemoveAt(listings, IndexOfId(listingId))
          /\ res' = Response("delete", listingId, 200, TRUE, "Listing deleted successfully", "",
                             <<>>, 0, <<"findById", "findByIdAndDelete">>)
  /\ UNCHANGED <<nextId, isMongoDBConnected, strictQuery, otherVars>>

(***************************************************************************)
(* PATCH /api/pg/:id/publish (not a public route: the API key is needed)   *)
(***************************************************************************)
PatchPublish(listingId, body, apiKey) ==
  /\ LET gate == ApiKeyMiddleware(FALSE, apiKey) IN
     IF gate # "next"
     THEN /\ res' = GateResponse("publish", listingId, gate)
          /\ UNCHANGED listings
     ELSE IF ~isMongoDBConnected
     THEN /\ res' = Response("publish", listingId, 500, FALSE, "Database not connected", "", <<>>, 0, <<>>)
          /\ UNCHANGED listings
     ELSE IF ~IsObjectIdString(listingId)
     THEN /\ res' = Response("publish", listingId, 400, FALSE, "Invalid listing ID format", "", <<>>, 0, <<>>)
          /\ UNCHANGED listings
     ELSE IF IndexOfId(listingId) = 0
     THEN /\ res' = Response("publish", listingId, 404, FALSE, "Listing not found", "", <<>>, 0,
                             <<"findByIdAndUpdate">>)
          /\ UNCHANGED listings
     ELSE LET i == IndexOfId(listingId)
              d == [listings[i] EXCEPT !.published = OrFalse(body, "published")]
          IN /\ listings' = ReplaceAt(listings, i, d)
             /\ res' = Response("publish", listingId, 200, TRUE, "", "", <<d>>, 0,
                                <<"findByIdAndUpdate">>)
  /\ UNCHANGED <<nextId, isMongoDBConnected, strictQuery, otherVars>>

(***************************************************************************)
(* PATCH /api/pg/:id/feature and PATCH /api/pg/:id/verify (not public      *)
(* routes: the API key is needed)                                          *)
(***************************************************************************)
PatchFlag(op, flag, listingId, body, apiKey) ==
  /\ LET gate == ApiKeyMiddleware(FALSE, apiKey) IN
     IF gate # "next"
     THEN /\ res' = GateResponse(op, listingId, gate)
          /\ UNCHANGED listings
     ELSE IF ~isMongoDBConnected
     THEN /\ res' = Response(op, listingId, 500, FALSE, "Database not connected", "", <<>>, 0, <<>>)
          /\ UNCHANGED listings
     ELSE IF ~IsObjectIdString(listingId)
     THEN /\ res' = Response(op, listingId, 400, FALSE, "Invalid listing ID format", "", <<>>, 0, <<>>)
          /\ UNCHANGED listings
     ELSE IF IndexOfId(listingId) = 0
     THEN /\ res' = Response(op, listingId, 404, FALSE, "Listing not found", "", <<>>, 0,
                             <<"findByIdAndUpdate">>)
          /\ UNCHANGED listings
     ELSE LET i == IndexOfId(listingId)
              d == [listings[i] EXCEPT ![flag] = OrFalse(body, flag)]
          IN /\ listings' = ReplaceAt(listings, i, d)
             /\ res' = Response(op, listingId, 200, TRUE, "", "", <<d>>, 0,
                                <<"findByIdAndUpdate">>)
  /\ UNCHANGED <<nextId, isMongoDBConnected, strictQuery, otherVars>>

PatchFeature(listingId, body, apiKey) == PatchFlag("feature", "featured", listingId, body, apiKey)

PatchVerify(listingId, body, apiKey) == PatchFlag("verify", "verified", listingId, body, apiKey)

(***************************************************************************)
(* The requests of POST /api/pg, PUT /api/pg/:id and DELETE /api/pg/:id as *)
(* they pass apiKeyMiddleware on their way to the route: '/api/pg' is in   *)
(* publicRoutes, and '/api/pg/:id' is matched as ^/api/pg/\w+$.            *)
(***************************************************************************)
PostPGRequest(body, apiKey) ==
  LET gate == ApiKeyMiddleware(TRUE, apiKey) IN
  IF gate # "next"
  THEN /\ res' = GateResponse("post", body, gate)
       /\ UNCHANGED <<listings, nextId, isMongoDBConnected, strictQuery, otherVars>>
  ELSE PostPG(body)

PutPGRequest(listingId, body, apiKey) ==
  LET gate == ApiKeyMiddleware(IsPublicIdPath(listingId), apiKey) IN
  IF gate # "next"
  THEN /\ res' = GateResponse("put", listingId, gate)
       /\ UNCHANGED <<listings, nextId, isMongoDBConnected, strictQuery, otherVars>>
  ELSE PutPG(listingId, body)

DeletePGRequest(listingId, apiKey) ==
  LET gate == ApiKeyMiddleware(IsPublicIdPath(listingId), apiKey) IN
  IF gate # "next"
  THEN /\ res' = GateResponse("delete", listingId, gate)
       /\ UNCHANGED <<listings, nextId, isMongoDBConnected, strictQuery, otherVars>>
  ELSE DeletePG(listingId)

(***************************************************************************)
(* Queries against the collection.                                         *)
(***************************************************************************)
\* Number(s) and parseInt(s) of a query-string value: the numerals of the
\* model; every other string gives NaN
NumericStrings == {"0", "1", "2", "3", "10", "5000", "6000", "8000", "10000", "12000"}

NumberOf(s) ==
  CASE s = "0" -> 0
    [] s = "1" -> 1
    [] s = "2" -> 2
    [] s = "3" -> 3
    [] s = "10" -> 10
    [] s = "5000" -> 5000
    [] s = "6000" -> 6000
    [] s = "8000" -> 8000
    [] s = "10000" -> 10000
    [] s = "12000" -> 12000

IsNaN(s) == s \notin NumericStrings

\* { $regex: pattern, $options: 'i' } on a field value
RegexCondition(pattern, value) == MatchesSomewhere(RegexOf(pattern), value)

\* the four conditions of a free-text $or
SearchConditions(pattern) ==
  {[field |-> f, pattern |-> pattern] : f \in {"name", "address", "city", "description"}}

\* mutant: the bounds are exclusive
PriceInRangeExclusive(price, filter) ==
  /\ Has(filter, "$gte") => price > filter["$gte"]
  /\ Has(filter, "$lte") => price < filter["$lte"]

\* price: { $gte: ..., $lte: ... }
PriceInRange(price, filter) ==
  /\ Has(filter, "$gte") => price >= filter["$gte"]
  /\ Has(filter, "$lte") => price <= filter["$lte"]

\* a filter is a function from the conditions present to their arguments
SatisfiesFilter(d, filter) ==
  /\ Has(filter, "type") => d.type = filter.type
  /\ Has(filter, "city") => RegexCondition(filter.city, d.city)
  /\ Has(filter, "$or") =>
       \E c \in filter["$or"] : RegexCondition(c.pattern, d[c.field])
  /\ PriceInRange(d.price, filter)
  /\ Has(filter, "published") => d.published = filter.published
  /\ Has(filter, "featured") => d.featured = filter.featured
  /\ Has(filter, "verified") => d.verified = filter.verified

\* find(filter): the matching documents in natural order
Find(filter) == SelectSeq(listings, LAMBDA d : SatisfiesFilter(d, filter))

\* countDocuments(filter)
CountDocuments(filter) == Len(Find(filter))

RECURSIVE InsertSorted(_, _)
InsertSorted(e, sorted) ==
  IF sorted = <<>> THEN <<e>>
  ELSE IF e.key < Head(sorted).key
       THEN <<e>> \o sorted
       ELSE <<Head(sorted)>> \o InsertSorted(e, Tail(sorted))

\* entries [key, doc] in ascending order of key, equal keys in their given order
RECURSIVE SortEntries(_)
SortEntries(entries) ==
  IF entries = <<>> THEN <<>>
  ELSE LET n == Len(entries)
       IN InsertSorted(entries[n], SortEntries(SubSeq(entries, 1, n - 1)))

DocsOf(entries) == [i \in 1..Len(entries) |-> entries[i].doc]

\* .sort({ createdAt: direction })
SortByCreatedAt(docs, direction) ==
  DocsOf(SortEntries([i \in 1..Len(docs) |->
                        [key |-> direction * docs[i].createdAt, doc |-> docs[i]]]))

\* .sort({ featured: -1, rating: -1 })
SortByFeaturedRating(docs) ==
  DocsOf(SortEntries([i \in 1..Len(docs) |->
                        [key |-> 0 - ((IF docs[i].featured THEN 100 ELSE 0) + docs[i].rating),
                         doc |-> docs[i]]]))

\* .skip(skip).limit(limit)
SkipLimit(docs, skip, limit) ==
  SubSeq(docs, skip + 1, IF skip + limit < Len(docs) THEN skip + limit ELSE Len(docs))

\* mutant: the quotient is rounded down
CeilRoundedDown(a, b) == a \div b

\* Math.ceil(a / b) for a >= 0, b > 0
Ceil(a, b) == (a + b - 1) \div b

EmptyObject == [f \in {} |-> f]

\* one field of an object literal, present when cond holds
Part(cond, f, v) == IF cond THEN (f :> v) ELSE EmptyObject

\* a query-string value that is present and not the empty string
TruthyText(q, f) == Has(q, f) /\ q[f] # ""

TruthySeq(q, f) == Has(q, f) /\ q[f] # <<>>

\* if (minPrice || maxPrice) { ... Number(minPrice) ... }
PriceParts(q) ==
  Part(TruthyText(q, "minPrice"), "$gte", NumberOf(q.minPrice))
  @@ Part(TruthyText(q, "maxPrice"), "$lte", NumberOf(q.maxPrice))

\* a price bound that Number() turns into NaN makes the query fail to cast
PriceCastFails(q) ==
  \/ TruthyText(q, "minPrice") /\ IsNaN(q.minPrice)
  \/ TruthyText(q, "maxPrice") /\ IsNaN(q.maxPrice)

(***************************************************************************)
(* GET /api/pg                                                             *)
(***************************************************************************)
\* mutant: the published condition is never added
ListQueryPublishedDropped(q) ==
  Part(TruthyText(q, "type") /\ q.type # "all", "type", q.type)
  @@ Part(TruthySeq(q, "city"), "city", q.city)
  @@ Part(TruthySeq(q, "search"), "$or", SearchConditions(q.search))
  @@ PriceParts(q)

ListQuery(q) ==
  Part(TruthyText(q, "type") /\ q.type # "all", "type", q.type)
  @@ Part(TruthySeq(q, "city"), "city", q.city)
  @@ Part(TruthySeq(q, "search"), "$or", SearchConditions(q.search))
  @@ PriceParts(q)
  @@ Part(~(Has(q, "admin") /\ q.admin = "true"), "published", TRUE)

PageOf(q) == IF Has(q, "page") THEN NumberOf(q.page) ELSE 1

LimitOf(q) == IF Has(q, "limit") THEN NumberOf(q.limit) ELSE 10

SortDirection(q) == IF Has(q, "sortOrder") /\ q.sortOrder # "desc" THEN 1 ELSE -1

Pagination(page, limit, total) ==
  [currentPage |-> page,
   totalPages |-> Ceil(total, limit),
   totalItems |-> total,
   itemsPerPage |-> limit,
   hasNextPage |-> page < Ceil(total, limit),
   hasPrevPage |-> page > 1]

\* mutant: the connection flag is not consulted
GetPGHandlerFlagIgnored(q) ==
  IF PriceCastFails(q)
  THEN Response("list", q, 500, FALSE, "Server error", "", <<>>, 0, <<"countDocuments">>)
  ELSE LET filter == ListQuery(q)
           total == CountDocuments(filter)
           data == SkipLimit(SortByCreatedAt(Find(filter), SortDirection(q)),
                             (PageOf(q) - 1) * LimitOf(q), LimitOf(q))
       IN [pagination |-> Pagination(PageOf(q), LimitOf(q), total)]
          @@ Response("list", q, 200, TRUE, "", "", data, total, <<"countDocuments", "find">>)

GetPGHandler(q) ==
  IF ~isMongoDBConnected
  THEN Response("list", q, 500, FALSE, "Database not connected", "", <<>>, 0, <<>>)
  ELSE IF PriceCastFails(q)
  THEN Response("list", q, 500, FALSE, "Server error", "", <<>>, 0, <<"countDocuments">>)
  ELSE LET filter == ListQuery(q)
           total == CountDocuments(filter)
           data == SkipLimit(SortByCreatedAt(Find(filter), SortDirection(q)),
                             (PageOf(q) - 1) * LimitOf(q), LimitOf(q))
       IN [pagination |-> Pagination(PageOf(q), LimitOf(q), total)]
          @@ Response("list", q, 200, TRUE, "", "", data, total, <<"countDocuments", "find">>)

\* /api/pg is a public route
GetPG(q) ==
  /\ res' = GetPGHandler(q)
  /\ UNCHANGED <<listings, nextId, isMongoDBConnected, strictQuery, otherVars>>

(***************************************************************************)
(* GET /api/search (a public route)                                        *)
(***************************************************************************)
SearchQuery(q) ==
  ("published" :> TRUE)
  @@ Part(TruthySeq(q, "city") /\ q.city # <<"a", "l", "l">>, "city", q.city)
  @@ Part(TruthyText(q, "type") /\ q.type # "all", "type", q.type)
  @@ PriceParts(q)

GetSearchHandler(q) ==
  IF ~isMongoDBConnected
  THEN Response("search", q, 500, FALSE, "Database not connected", "", <<>>, 0, <<>>)
  ELSE IF PriceCastFails(q)
  THEN Response("search", q, 500, FALSE, "Search failed", "", <<>>, 0, <<"find">>)
  ELSE LET data == SortByFeaturedRating(Find(SearchQuery(q)))
       IN Response("search", q, 200, TRUE, "", "", data, Len(data), <<"find">>)

GetSearch(q) ==
  /\ res' = GetSearchHandler(q)
  /\ UNCHANGED <<listings, nextId, isMongoDBConnected, strictQuery, otherVars>>

(***************************************************************************)
(* pgController and the pg router: the same collection, served without the *)
(* server's connection flag.                                               *)
(***************************************************************************)
ControllerQuery(q) ==
  Part(TruthyText(q, "type") /\ q.type # "all", "type", q.type)
  @@ Part(Has(q, "published") /\ q.published \in {"true", "false"}, "published",
          Has(q, "published") /\ q.published = "true")
  @@ Part(Has(q, "featured") /\ q.featured = "true", "featured", TRUE)
  @@ Part(Has(q, "verified") /\ q.verified = "true", "verified", TRUE)
  @@ Part(TruthySeq(q, "city"), "city", q.city)
  @@ PriceParts(q)
  @@ Part(TruthySeq(q, "search"), "$or", SearchConditions(q.search))

DefaultControllerLimit == 20

ControllerLimitOf(q) == IF Has(q, "limit") THEN NumberOf(q.limit) ELSE DefaultControllerLimit

\* exports.getPGListings
GetPGListings(q) ==
  /\ res' = IF PriceCastFails(q)
            THEN Response("getPGListings", q, 500, FALSE, "Server error", "", <<>>, 0, <<"find">>)
            ELSE LET filter == ControllerQuery(q)
                     data == SkipLimit(SortByCreatedAt(Find(filter), -1),
                                       (PageOf(q) - 1) * ControllerLimitOf(q),
                                       ControllerLimitOf(q))
                 IN Response("getPGListings", q, 200, TRUE, "", "", data,
                             CountDocuments(filter), <<"find", "countDocuments">>)
  /\ UNCHANGED <<listings, nextId, isMongoDBConnected, strictQuery, otherVars>>

ControllerSearchQuery(q) ==
  Part(TruthySeq(q, "q") \/ TruthySeq(q, "location"), "$or",
       (IF TruthySeq(q, "q") THEN SearchConditions(q.q) ELSE {})
       \cup (IF TruthySeq(q, "location")
             THEN {[field |-> f, pattern |-> q.location] : f \in {"address", "city"}}
             ELSE {}))
  @@ Part(TruthyText(q, "type") /\ q.type # "all", "type", q.type)
  @@ ("published" :> TRUE)

SearchLimit == 20

\* exports.searchPGListings
SearchPGListings(q) ==
  /\ res' = LET data == SkipLimit(SortByCreatedAt(Find(ControllerSearchQuery(q)), -1),
                                  0, SearchLimit)
            IN Response("searchPGListings", q, 200, TRUE, "", "", data, Len(data), <<"find">>)
  /\ UNCHANGED <<listings, nextId, isMongoDBConnected, strictQuery, otherVars>>

\* router.get('/') of routes/pg.js
RouterGet ==
  /\ res' = LET data == SortByCreatedAt(Find(EmptyObject), -1)
            IN Response("routerGet", EmptyObject, 200, TRUE, "", "", data, Len(data), <<"find">>)
  /\ UNCHANGED <<listings, nextId, isMongoDBConnected, strictQuery, otherVars>>

(***************************************************************************)
(* Users and the protect middleware.  A request carries the user its token *)
(* names, or "" when it carries no valid token.                            *)
(***************************************************************************)
Users == {"u1", "u2", "u3"}

\* mutant: every user has the admin role
RoleOfAdmin(user) == "admin"

\* User.role
RoleOf(user) == IF user = "u3" THEN "admin" ELSE "user"

\* "next" when req.user is set, else the status the request ends with
Protect(user) == IF user \in Users THEN "next" ELSE "401"

Unauthorized(op, req) ==
  Response(op, req, 401, FALSE, "Not authorized, no token", "", <<>>, 0, <<>>)

(***************************************************************************)
(* Review model: the collection, its unique index on (user, pgListing) and *)
(* updatePGListingRating, which the post-save hook runs.                   *)
(***************************************************************************)
ReviewPositions == 1..Len(reviews)

\* findById on the Review collection: the position of the review, 0 if none
ReviewIndexOfId(id) == FirstIndex({i \in ReviewPositions : reviews[i]._id = ToLowerCase(id)})

\* findOne({ user, pgListing }): the position of the review, 0 if none
ReviewIndexOfPair(user, pgId) ==
  FirstIndex({i \in ReviewPositions :
                reviews[i].user = user /\ reviews[i].pgListing = ToLowerCase(pgId)})

\* the validators of reviewSchema
ReviewValid(r) ==
  /\ IsObjectIdString(r.pgListing)
  /\ r.rating >= 1
  /\ r.rating <= 5
  /\ r.title # ""
  /\ r.comment # ""

\* mutant: no unique index on (user, pgListing)
DuplicateKeyUnchecked(user, pgId) == FALSE

\* the unique index { user: 1, pgListing: 1 } rejects a second review of the pair
DuplicateKey(user, pgId) == ReviewIndexOfPair(user, pgId) # 0

RECURSIVE SumOfRatings(_)
SumOfRatings(rs) == IF rs = <<>> THEN 0 ELSE Head(rs).rating + SumOfRatings(Tail(rs))

\* Review.aggregate([{ $match: { pgListing } }, { $group: ... }]): the number
\* of reviews of the listing and the sum of their ratings (count 0: no group)
AggregateStats(pgId) ==
  LET matched == SelectSeq(reviews, LAMBDA r : r.pgListing = pgId)
  IN [count |-> Len(matched), sum |-> SumOfRatings(matched)]

\* mutant: the average is cut, not rounded
AverageCut(sum, count) == (10 * sum) \div count

\* parseFloat((sum / count).toFixed(1)), in tenths; the averages of fewer
\* than twenty whole ratings that lie halfway between two tenths end in .25
\* or .75, which toFixed rounds up
AverageToFixed1(sum, count) == (20 * sum + count) \div (2 * count)

\* findByIdAndUpdate(pgListingId, { rating, reviewCount }) of the hook
WithRating(pgId, count, sum) ==
  [i \in Positions |->
     IF listings[i]._id = pgId
     THEN [listings[i] EXCEPT !.rating = IF count > 0 THEN AverageToFixed1(sum, count) ELSE 0,
                              !.reviewCount = count]
     ELSE listings[i]]

\* the request of slot s ends: the slot is free again
Finish(s) == requests' = [requests EXCEPT ![s] = Idle]

\* the request of slot s goes on with the fields of next
Continue(s, next) == requests' = [requests EXCEPT ![s] = next @@ requests[s]]

\* the hook's aggregate read, for the request in slot s
Aggregate(s) ==
  /\ requests[s].pc = "aggregate"
  /\ LET stats == AggregateStats(requests[s].target)
     IN Continue(s, [pc |-> "write", count |-> stats.count, sum |-> stats.sum])
  /\ UNCHANGED <<listings, nextId, isMongoDBConnected, strictQuery, res,
                 reviews, nextReviewId, bookings>>

\* the hook's listing write, after which save() resolves and the route answers
WriteRating(s) ==
  /\ requests[s].pc = "write"
  /\ LET r == requests[s]
         i == ReviewIndexOfId(r.review)
         stored == IF i = 0 THEN <<>> ELSE <<reviews[i]>>
     IN /\ listings' = WithRating(r.target, r.count, r.sum)
        /\ res' = Response(r.op, [user |-> r.user, pgId |-> r.target, review |-> r.review],
                           IF r.op = "createReview" THEN 201 ELSE 200, TRUE, "", "",
                           stored, 0, <<"save", "aggregate", "findByIdAndUpdate">>)
  /\ Finish(s)
  /\ UNCHANGED <<nextId, isMongoDBConnected, strictQuery, reviews, nextReviewId, bookings>>

\* mutant: the review is taken back when the listing write fails
WriteRatingFailsRollsBack(s) ==
  /\ requests[s].pc = "write"
  /\ LET r == requests[s] IN
       /\ res' = Response(r.op, [user |-> r.user, pgId |-> r.target, review |-> r.review],
                          400, FALSE, "findByIdAndUpdate failed", "", <<>>, 0,
                          <<"save", "aggregate", "findByIdAndUpdate">>)
       /\ reviews' = SelectSeq(reviews, LAMBDA d : d._id # r.review)
  /\ Finish(s)
  /\ UNCHANGED <<listings, nextId, isMongoDBConnected, strictQuery, nextReviewId, bookings>>

\* the hook's listing write is rejected by the store: the hook's promise
\* rejects, save() rejects with it and the route's catch answers 400; the
\* review stays inserted
WriteRatingFails(s) ==
  /\ requests[s].pc = "write"
  /\ LET r == requests[s] IN
       res' = Response(r.op, [user |-> r.user, pgId |-> r.target, review |-> r.review],
                       400, FALSE, "findByIdAndUpdate failed", "", <<>>, 0,
                       <<"save", "aggregate", "findByIdAndUpdate">>)
  /\ Finish(s)
  /\ UNCHANGED <<listings, nextId, isMongoDBConnected, strictQuery, reviews, nextReviewId,
                 bookings>>

(***************************************************************************)
(* The reviews router.  A route is handled in the steps its awaits divide  *)
(* it into; the first step is the arrival of the request with the route's  *)
(* first read of the store.                                                *)
(***************************************************************************)
ReviewFailure(op, req, status, message, queries) ==
  Response(op, req, status, FALSE, message, "", <<>>, 0, queries)

\* router.post('/'): protect, then findOne({ user, pgListing })
PostReview(s, user, body) ==
  /\ requests[s] = Idle
  /\ LET req == [user |-> user, pgId |-> body.pgId, review |-> <<>>] IN
     IF Protect(user) # "next"
     THEN /\ res' = Unauthorized("createReview", req)
          /\ UNCHANGED requests
     ELSE IF ~IsObjectIdString(body.pgId)
     THEN /\ res' = ReviewFailure("createReview", req, 400, "Cast to ObjectId failed", <<"findOne">>)
          /\ UNCHANGED requests
     ELSE IF ReviewIndexOfPair(user, body.pgId) # 0
     THEN /\ res' = ReviewFailure("createReview", req, 400, "You have already reviewed this PG",
                                  <<"findOne">>)
          /\ UNCHANGED requests
     ELSE /\ Continue(s, [op |-> "createReview", pc |-> "save", user |-> user,
                          target |-> ToLowerCase(body.pgId),
                          rating |-> OrNum(body, "rating", 0),
                          title |-> OrText(body, "title", ""),
                          comment |-> OrText(body, "comment", "")])
          /\ UNCHANGED res
  /\ UNCHANGED <<listings, nextId, isMongoDBConnected, strictQuery, reviews, nextReviewId, bookings>>

\* review.save() of router.post('/'): validation, then the insert
PostReviewSave(s) ==
  /\ requests[s].op = "createReview"
  /\ requests[s].pc = "save"
  /\ LET r == requests[s]
         req == [user |-> r.user, pgId |-> r.target, review |-> <<>>]
         doc == [_id |-> ObjectIdOf(nextReviewId + 1), user |-> r.user, pgListing |-> r.target,
                 rating |-> r.rating, title |-> r.title, comment |-> r.comment]
     IN IF ~ReviewValid(doc)
        THEN /\ res' = ReviewFailure("createReview", req, 400, "Review validation failed", <<>>)
             /\ Finish(s)
             /\ UNCHANGED <<reviews, nextReviewId>>
        ELSE IF DuplicateKey(r.user, r.target)
        THEN /\ res' = ReviewFailure("createReview", req, 400, "E11000 duplicate key error",
                                     <<"save">>)
             /\ Finish(s)
             /\ UNCHANGED <<reviews, nextReviewId>>
        ELSE /\ reviews' = Append(reviews, doc)
             /\ nextReviewId' = nextReviewId + 1
             /\ Continue(s, [pc |-> "aggregate", review |-> doc._id])
             /\ UNCHANGED res
  /\ UNCHANGED <<listings, nextId, isMongoDBConnected, strictQuery, bookings>>

\* a path of the loaded review that the route assigns a different value:
\* req.body[f] || review[f], marked modified only if it differs
ModifiedNum(body, f, old) == IF OrNum(body, f, old) # old THEN body[f] ELSE 0

ModifiedText(body, f, old) == IF OrText(body, f, old) # old THEN body[f] ELSE ""

\* router.put('/:id'): protect, findById, the author check, the assignments
PutReview(s, user, id, body) ==
  /\ requests[s] = Idle
  /\ LET req == [user |-> user, pgId |-> <<>>, review |-> id]
         i == ReviewIndexOfId(id)
     IN IF Protect(user) # "next"
        THEN /\ res' = Unauthorized("updateReview", req)
             /\ UNCHANGED requests
        ELSE IF ~IsObjectIdString(id)
        THEN /\ res' = ReviewFailure("updateReview", req, 400, "Cast to ObjectId failed",
                                     <<"findById">>)
             /\ UNCHANGED requests
        ELSE IF i = 0
        THEN /\ res' = ReviewFailure("updateReview", req, 404, "Review not found", <<"findById">>)
             /\ UNCHANGED requests
        ELSE IF reviews[i].user # user
        THEN /\ res' = ReviewFailure("updateReview", req, 403, "Not authorized", <<"findById">>)
             /\ UNCHANGED requests
        ELSE /\ Continue(s, [op |-> "updateReview", pc |-> "save", user |-> user,
                             review |-> reviews[i]._id, target |-> reviews[i].pgListing,
                             rating |-> ModifiedNum(body, "rating", reviews[i].rating),
                             title |-> ModifiedText(body, "title", reviews[i].title),
                             comment |-> ModifiedText(body, "comment", reviews[i].comment)])
             /\ UNCHANGED res
  /\ UNCHANGED <<listings, nextId, isMongoDBConnected, strictQuery, reviews, nextReviewId, bookings>>

\* review.save() of router.put('/:id'): the modified paths are validated and
\* written to the stored review, which must still exist
PutReviewSave(s) ==
  /\ requests[s].op = "updateReview"
  /\ requests[s].pc = "save"
  /\ LET r == requests[s]
         req == [user |-> r.user, pgId |-> r.target, review |-> r.review]
         i == ReviewIndexOfId(r.review)
     IN IF r.rating > 5
        THEN /\ res' = ReviewFailure("updateReview", req, 400, "Review validation failed", <<>>)
             /\ Finish(s)
             /\ UNCHANGED reviews
        ELSE IF i = 0
        THEN /\ res' = ReviewFailure("updateReview", req, 400, "No document found for query",
                                     <<"save">>)
             /\ Finish(s)
             /\ UNCHANGED reviews
        ELSE /\ reviews' = ReplaceAt(reviews, i,
                              [reviews[i] EXCEPT
                                 !.rating = IF r.rating # 0 THEN r.rating ELSE @,
                                 !.title = IF r.title # "" THEN r.title ELSE @,
                                 !.comment = IF r.comment # "" THEN r.comment ELSE @])
             /\ Continue(s, [pc |-> "aggregate"])
             /\ UNCHANGED res
  /\ UNCHANGED <<listings, nextId, isMongoDBConnected, strictQuery, nextReviewId, bookings>>

\* router.delete('/:id'): protect, findById, the author-or-admin check
DeleteReview(s, user, id) ==
  /\ requests[s] = Idle
  /\ LET req == [user |-> user, pgId |-> <<>>, review |-> id]
         i == ReviewIndexOfId(id)
     IN IF Protect(user) # "next"
        THEN /\ res' = Unauthorized("deleteReview", req)
             /\ UNCHANGED requests
        ELSE IF ~IsObjectIdString(id)
        THEN /\ res' = ReviewFailure("deleteReview", req, 400, "Cast to ObjectId failed",
                                     <<"findById">>)
             /\ UNCHANGED requests
        ELSE IF i = 0
        THEN /\ res' = ReviewFailure("deleteReview", req, 404, "Review not found", <<"findById">>)
             /\ UNCHANGED requests
        ELSE IF reviews[i].user # user /\ RoleOf(user) # "admin"
        THEN /\ res' = ReviewFailure("deleteReview", req, 403, "Not authorized", <<"findById">>)
             /\ UNCHANGED requests
        ELSE /\ Continue(s, [op |-> "deleteReview", pc |-> "deleteOne", user |-> user,
                             review |-> reviews[i]._id, target |-> reviews[i].pgListing])
             /\ UNCHANGED res
  /\ UNCHANGED <<listings, nextId, isMongoDBConnected, strictQuery, reviews, nextReviewId, bookings>>

\* review.deleteOne() of router.delete('/:id'): document middleware of
\* deleteOne; the schema's hooks are on save, findOneAndDelete and
\* findOneAndUpdate, none of which this call runs
DeleteReviewDeleteOne(s) ==
  /\ requests[s].op = "deleteReview"
  /\ requests[s].pc = "deleteOne"
  /\ LET r == requests[s]
         i == ReviewIndexOfId(r.review)
     IN /\ reviews' = IF i = 0 THEN reviews ELSE RemoveAt(reviews, i)
        /\ res' = Response("deleteReview", [user |-> r.user, pgId |-> r.target, review |-> r.review],
                           200, TRUE, "Review removed", "", <<>>, 0, <<"deleteOne">>)
  /\ Finish(s)
  /\ UNCHANGED <<listings, nextId, isMongoDBConnected, strictQuery, nextReviewId, bookings>>

\* no request is being handled
AllIdle == \A s \in Slots : requests[s] = Idle

(***************************************************************************)
(* Bookings: the Booking model and the bookings router.                    *)
(***************************************************************************)
BookingStatuses == {"pending", "confirmed", "cancelled", "completed"}

RoomTypes == {"single", "double", "triple", "quad", "dormitory"}

BookingPositions == 1..Len(bookings)

\* Booking.findById: the position of the booking, 0 if none
BookingIndexOfId(id) ==
  FirstIndex({i \in BookingPositions : bookings[i]._id = ToLowerCase(id)})

\* the validators of bookingSchema
BookingValid(b) ==
  /\ b.roomType \in RoomTypes
  /\ b.duration >= 1
  /\ b.duration <= 12
  /\ b.status \in BookingStatuses

BookingFailure(op, req, status, message, queries) ==
  Response(op, req, status, FALSE, message, "", <<>>, 0, queries)

\* router.post('/'): protect, the listing is looked up, the booking saved as
\* pending; no stored listing has availability 'full', which is not a value
\* of the schema's enum
PostBooking(user, body) ==
  /\ LET req == [user |-> user, booking |-> <<>>, pgId |-> body.pgId]
         i == IndexOfId(body.pgId)
         totalAmount == listings[i].price * body.duration
         doc == [_id |-> ObjectIdOf(Len(bookings) + 1), user |-> user,
                 pgListing |-> ToLowerCase(body.pgId), roomType |-> body.roomType,
                 duration |-> body.duration, totalAmount |-> totalAmount,
                 deposit |-> (totalAmount * 2) \div 10, status |-> "pending"]
     IN IF Protect(user) # "next"
        THEN /\ res' = Unauthorized("createBooking", req)
             /\ UNCHANGED bookings
        ELSE IF ~IsObjectIdString(body.pgId)
        THEN /\ res' = BookingFailure("createBooking", req, 400, "Cast to ObjectId failed",
                                      <<"findById">>)
             /\ UNCHANGED bookings
        ELSE IF i = 0
        THEN /\ res' = BookingFailure("createBooking", req, 404, "PG not found", <<"findById">>)
             /\ UNCHANGED bookings
        ELSE IF ~BookingValid(doc)
        THEN /\ res' = BookingFailure("createBooking", req, 400, "Booking validation failed",
                                      <<"findById">>)
             /\ UNCHANGED bookings
        ELSE /\ bookings' = Append(bookings, doc)
             /\ res' = Response("createBooking", req, 201, TRUE, "", "", <<doc>>, 0,
                                <<"findById", "save">>)
  /\ UNCHANGED <<listings, nextId, isMongoDBConnected, strictQuery, reviews, nextReviewId, requests>>

\* mutant: only a cancelled booking is refused
CannotBeCancelledIfCancelled(status) == status = "cancelled"

\* the statuses in which router.put('/:id/cancel') refuses
CannotBeCancelled(status) == status = "cancelled" \/ status = "completed"

\* router.put('/:id/cancel'): protect, findById, the checks
PutBookingCancel(s, user, id) ==
  /\ requests[s] = Idle
  /\ LET req == [user |-> user, booking |-> id, pgId |-> <<>>]
         i == BookingIndexOfId(id)
     IN IF Protect(user) # "next"
        THEN /\ res' = Unauthorized("cancelBooking", req)
             /\ UNCHANGED requests
        ELSE IF ~IsObjectIdString(id)
        THEN /\ res' = BookingFailure("cancelBooking", req, 400, "Cast to ObjectId failed",
                                      <<"findById">>)
             /\ UNCHANGED requests
        ELSE IF i = 0
        THEN /\ res' = BookingFailure("cancelBooking", req, 404, "Booking not found", <<"findById">>)
             /\ UNCHANGED requests
        ELSE IF bookings[i].user # user
        THEN /\ res' = BookingFailure("cancelBooking", req, 403, "Not authorized", <<"findById">>)
             /\ UNCHANGED requests
        ELSE IF CannotBeCancelled(bookings[i].status)
        THEN /\ res' = BookingFailure("cancelBooking", req, 400,
                                      IF bookings[i].status = "cancelled"
                                      THEN "Booking is already cancelled"
                                      ELSE "Completed bookings cannot be cancelled",
                                      <<"findById">>)
             /\ UNCHANGED requests
        ELSE /\ Continue(s, [op |-> "cancelBooking", pc |-> "save", user |-> user,
                             target |-> bookings[i]._id, status |-> "cancelled"])
             /\ UNCHANGED res
  /\ UNCHANGED <<listings, nextId, isMongoDBConnected, strictQuery, reviews, nextReviewId, bookings>>

\* router.put('/:id/status'): protect, findById, the role check; an owner's
\* request fails on pg.owner, a path the listing schema does not have
PutBookingStatus(s, user, id, body) ==
  /\ requests[s] = Idle
  /\ LET req == [user |-> user, booking |-> id, pgId |-> <<>>]
         i == BookingIndexOfId(id)
     IN IF Protect(user) # "next"
        THEN /\ res' = Unauthorized("bookingStatus", req)
             /\ UNCHANGED requests
        ELSE IF ~IsObjectIdString(id)
        THEN /\ res' = BookingFailure("bookingStatus", req, 400, "Cast to ObjectId failed",
                                      <<"findById">>)
             /\ UNCHANGED requests
        ELSE IF i = 0
        THEN /\ res' = BookingFailure("bookingStatus", req, 404, "Booking not found", <<"findById">>)
             /\ UNCHANGED requests
        ELSE IF RoleOf(user) = "owner"
        THEN /\ res' = BookingFailure("bookingStatus", req, 400, "Cannot read properties",
                                      <<"findById", "findById">>)
             /\ UNCHANGED requests
        ELSE IF RoleOf(user) # "admin"
        THEN /\ res' = BookingFailure("bookingStatus", req, 403, "Not authorized", <<"findById">>)
             /\ UNCHANGED requests
        ELSE /\ Continue(s, [op |-> "bookingStatus", pc |-> "save", user |-> user,
                             target |-> bookings[i]._id,
                             status |-> IF Has(body, "status") THEN body.status ELSE ""])
             /\ UNCHANGED res
  /\ UNCHANGED <<listings, nextId, isMongoDBConnected, strictQuery, reviews, nextReviewId, bookings>>

\* booking.save() of the cancel and status routes: the status is validated
\* and written to the stored booking
BookingSave(s) ==
  /\ requests[s].op \in {"cancelBooking", "bookingStatus"}
  /\ requests[s].pc = "save"
  /\ LET r == requests[s]
         req == [user |-> r.user, booking |-> r.target, pgId |-> <<>>]
         i == BookingIndexOfId(r.target)
     IN IF r.status \notin BookingStatuses
        THEN /\ res' = BookingFailure(r.op, req, 400, "Booking validation failed", <<>>)
             /\ UNCHANGED bookings
        ELSE IF i = 0
        THEN /\ res' = BookingFailure(r.op, req, 400, "No document found for query", <<"save">>)
             /\ UNCHANGED bookings
        ELSE /\ bookings' = ReplaceAt(bookings, i, [bookings[i] EXCEPT !.status = r.status])
             /\ res' = Response(r.op, req, 200, TRUE,
                                IF r.op = "cancelBooking" THEN "Booking cancelled successfully"
                                ELSE "Booking status updated successfully",
                                "", <<>>, 0, <<"save">>)
  /\ Finish(s)
  /\ UNCHANGED <<listings, nextId, isMongoDBConnected, strictQuery, reviews, nextReviewId>>

(***************************************************************************)
(* POST /api/pg/sample-data.  "sample-data" has a hyphen, so the path is   *)
(* not matched by ^/api/pg/\w+$ and the API key is needed.  The route      *)
(* counts the documents, and on an empty collection saves the sample       *)
(* listings one await after the other.                                     *)
(***************************************************************************)
SamplePath == <<"s", "a", "m", "p", "l", "e", "-", "d", "a", "t", "a">>

\* sampleListings, with the paths the model keeps; names are cut to their
\* first word, ratings are in tenths
SampleListings ==
  <<[name |-> <<"R", "o", "y", "a", "l">>, description |-> <<>>, city |-> DefaultCity,
     locality |-> <<>>, address |-> <<>>, price |-> 9000, type |-> "boys",
     published |-> TRUE, verified |-> TRUE, featured |-> TRUE, rating |-> 47,
     reviewCount |-> 56],
    [name |-> <<"S", "u", "n", "s", "h", "i", "n", "e">>, description |-> <<>>,
     city |-> DefaultCity, locality |-> <<>>, address |-> <<>>, price |-> 9500,
     type |-> "girls", published |-> TRUE, verified |-> TRUE, featured |-> TRUE,
     rating |-> 48, reviewCount |-> 89],
    [name |-> <<"C", "o", "z", "y">>, description |-> <<>>,
     city |-> <<"M", "o", "h", "a", "l", "i">>, locality |-> <<>>, address |-> <<>>,
     price |-> 8000, type |-> "co-ed", published |-> TRUE, verified |-> TRUE,
     featured |-> FALSE, rating |-> 43, reviewCount |-> 34],
    [name |-> <<"P", "r", "e", "m", "i", "u", "m">>, description |-> <<>>,
     city |-> DefaultCity, locality |-> <<>>, address |-> <<>>, price |-> 11000,
     type |-> "family", published |-> TRUE, verified |-> TRUE, featured |-> TRUE,
     rating |-> 49, reviewCount |-> 45]>>

\* the request arrives and its countDocuments({}) is answered
PostSampleData(s, apiKey) ==
  /\ requests[s] = Idle
  /\ LET gate == ApiKeyMiddleware(IsPublicIdPath(SamplePath), apiKey) IN
     IF gate # "next"
     THEN /\ res' = GateResponse("sampleData", <<>>, gate)
          /\ UNCHANGED requests
     ELSE IF ~isMongoDBConnected
     THEN /\ res' = Response("sampleData", <<>>, 500, FALSE, "Database not connected", "",
                             <<>>, 0, <<>>)
          /\ UNCHANGED requests
     ELSE IF CountDocuments(EmptyObject) > 0
     THEN /\ res' = Response("sampleData", <<>>, 200, TRUE, "No sample data added.", "",
                             <<>>, CountDocuments(EmptyObject), <<"countDocuments">>)
          /\ UNCHANGED requests
     ELSE /\ Continue(s, [op |-> "sampleData", pc |-> "save", count |-> 0])
          /\ UNCHANGED res
  /\ UNCHANGED <<listings, nextId, isMongoDBConnected, strictQuery, reviews, nextReviewId,
                 bookings>>

\* one turn of the loop: new PGListing(listing).save(); after the last one
\* the route answers with the documents it saved (kept in target)
SampleSave(s) ==
  /\ requests[s].op = "sampleData"
  /\ requests[s].pc = "save"
  /\ LET k == requests[s].count + 1
         saved == NewDocument(SampleListings[k])
         savedListings == Append(requests[s].target, saved)
     IN /\ listings' = Append(listings, saved)
        /\ nextId' = nextId + 1
        /\ IF k < Len(SampleListings)
           THEN /\ Continue(s, [count |-> k, target |-> savedListings])
                /\ UNCHANGED res
           ELSE /\ Finish(s)
                /\ res' = Response("sampleData", <<>>, 200, TRUE,
                                   "Sample data added successfully", "", savedListings,
                                   Len(savedListings), <<"countDocuments", "save">>)
  /\ UNCHANGED <<isMongoDBConnected, strictQuery, reviews, nextReviewId, bookings>>

(***************************************************************************)
(* PUT /api/pg/:id and DELETE /api/pg/:id in the steps their awaits divide *)
(* them into: findById with the checks before it, then the write.  The     *)
(* write meets the collection as it is by then.                            *)
(***************************************************************************)
PutPGFind(s, listingId, body) ==
  /\ requests[s] = Idle
  /\ IF ~isMongoDBConnected
     THEN /\ res' = Response("put", listingId, 500, FALSE, "Database not connected", "", <<>>, 0, <<>>)
          /\ UNCHANGED requests
     ELSE IF ~IsObjectIdString(listingId)
     THEN /\ res' = Response("put", listingId, 400, FALSE, "Invalid listing ID format", "", <<>>, 0, <<>>)
          /\ UNCHANGED requests
     ELSE IF IndexOfId(listingId) = 0
     THEN /\ res' = Response("put", listingId, 404, FALSE, "Listing not found", "", <<>>, 0,
                             <<"findById">>)
          /\ UNCHANGED requests
     ELSE /\ Continue(s, [op |-> "put", pc |-> "findByIdAndUpdate", target |-> listingId,
                          body |-> body])
          /\ UNCHANGED res
  /\ UNCHANGED <<listings, nextId, isMongoDBConnected, strictQuery, reviews, nextReviewId,
                 bookings>>

\* findByIdAndUpdate resolves with null when the document is gone, and the
\* route reads updatedListing._id: the TypeError is caught
PutPGUpdate(s) ==
  /\ requests[s].op = "put"
  /\ requests[s].pc = "findByIdAndUpdate"
  /\ LET listingId == requests[s].target
         update == UpdateData(requests[s].body)
         i == IndexOfId(listingId)
     IN IF ~UpdateValid(update) \/ i = 0
        THEN /\ res' = Response("put", listingId, 500, FALSE, "Failed to update listing", "",
                                <<>>, 0, <<"findById", "findByIdAndUpdate">>)
             /\ UNCHANGED listings
        ELSE /\ listings' = ReplaceAt(listings, i, ApplyUpdate(listings[i], update))
             /\ res' = Response("put", listingId, 200, TRUE, "Listing updated successfully", "",
                                <<ApplyUpdate(listings[i], update)>>, 0,
                                <<"findById", "findByIdAndUpdate">>)
  /\ Finish(s)
  /\ UNCHANGED <<nextId, isMongoDBConnected, strictQuery, reviews, nextReviewId, bookings>>

DeletePGFind(s, listingId) ==
  /\ requests[s] = Idle
  /\ IF ~isMongoDBConnected
     THEN /\ res' = Response("delete", listingId, 500, FALSE, "Database not connected", "", <<>>, 0, <<>>)
          /\ UNCHANGED requests
     ELSE IF ~IsObjectIdString(listingId)
     THEN /\ res' = Response("delete", listingId, 400, FALSE, "Invalid listing ID format", "", <<>>, 0, <<>>)
          /\ UNCHANGED requests
     ELSE IF IndexOfId(listingId) = 0
     THEN /\ res' = Response("delete", listingId, 404, FALSE, "Listing not found", "", <<>>, 0,
                             <<"findById">>)
          /\ UNCHANGED requests
     ELSE /\ Continue(s, [op |-> "delete", pc |-> "findByIdAndDelete", target |-> listingId])
          /\ UNCHANGED res
  /\ UNCHANGED <<listings, nextId, isMongoDBConnected, strictQuery, reviews, nextReviewId,
                 bookings>>

\* the result of findByIdAndDelete is not looked at
DeletePGDelete(s) ==
  /\ requests[s].op = "delete"
  /\ requests[s].pc = "findByIdAndDelete"
  /\ LET listingId == requests[s].target
         i == IndexOfId(listingId)
     IN /\ listings' = IF i = 0 THEN listings ELSE RemoveAt(listings, i)
        /\ res' = Response("delete", listingId, 200, TRUE, "Listing deleted successfully", "",
                           <<>>, 0, <<"findById", "findByIdAndDelete">>)
  /\ Finish(s)
  /\ UNCHANGED <<nextId, isMongoDBConnected, strictQuery, reviews, nextReviewId, bookings>>

(***************************************************************************)
(* Initial state: an empty collection, the flag false until the driver     *)
(* reports a connection.                                                   *)
(***************************************************************************)
Init ==
  /\ listings = <<>>
  /\ nextId = 0
  /\ isMongoDBConnected = FALSE
  /\ strictQuery \in BOOLEAN
  /\ res = NoResponse
  /\ reviews = <<>>
  /\ nextReviewId = 0
  /\ requests = [s \in Slots |-> Idle]
  /\ bookings = <<>>

(***************************************************************************)
(* Resolving identifiers: listings that differ in their names, and every   *)
(* short identifier over a small alphabet.                                 *)
(***************************************************************************)
RECURSIVE StringsOver(_, _)
StringsOver(chars, n) ==
  IF n = 0 THEN {<<>>}
  ELSE LET shorter == StringsOver(chars, n - 1)
       IN shorter \cup {<<c>> \o t : c \in chars, t \in {u \in shorter : Len(u) = n - 1}}

ResolveNames ==
  {<<"A", " ", "a">>, <<"a", "s", "a">>, <<"a", "-", "a">>, <<"a", ".">>, ObjectIdOf(2)}

ResolveBodies ==
  {[name |-> n, price |-> 5000] : n \in ResolveNames}
  \cup {[name |-> <<"b">>, price |-> 5000, locality |-> <<"a", " ", "a">>]}

UpperCaseId(n) == [i \in 1..IdLen |-> IF ObjectIdOf(n)[i] = "a" THEN "A" ELSE ObjectIdOf(n)[i]]

ResolveIds ==
  (StringsOver({"a", "-", " "}, MaxIdLen) \ {<<>>})
  \cup {ObjectIdOf(n) : n \in 1..(MaxResolveListings + 1)}
  \cup {UpperCaseId(1), <<" ">> \o ObjectIdOf(1), <<"a", ".">>, <<"s">>,
        <<"u", "n", "d", "e", "f", "i", "n", "e", "d">>, <<"n", "u", "l", "l">>}

NextResolve ==
  \/ \E e \in ConnectionEvents : ConnectionEvent(e)
  \/ \E body \in ResolveBodies : nextId < MaxResolveListings /\ PostPG(body)
  \/ \E id \in ResolveIds, apiKey \in {"none", "valid"} : GetPGById(id, apiKey)

SpecResolve == Init /\ [][NextResolve]_vars

(***************************************************************************)
(* Publication: listings that differ in their published flag, served by    *)
(* every listing and search endpoint.                                      *)
(***************************************************************************)
PublishBodies ==
  {[name |-> <<"a">>, price |-> 5000],
   [name |-> <<"a">>, price |-> 5000, published |-> FALSE],
   [name |-> <<"a">>, price |-> 5000, published |-> TRUE, type |-> "girls"]}

PublishUpdates ==
  {[published |-> FALSE], [published |-> TRUE], [name |-> <<"b">>], [name |-> <<>>]}

PublishQueries ==
  {EmptyObject, [admin |-> "true"], [admin |-> "false"], [type |-> "girls"],
   [type |-> "girls", admin |-> "true"]}

ControllerQueries ==
  {EmptyObject, [published |-> "true"], [published |-> "false"], [type |-> "girls"]}

PublishIds ==
  {ObjectIdOf(n) : n \in 1..(MaxQueryListings + 1)}
  \cup {<<"a">>, <<"n", "u", "l", "l">>}

NextPublish ==
  \/ \E e \in ConnectionEvents : ConnectionEvent(e)
  \/ \E body \in PublishBodies : nextId < MaxQueryListings /\ PostPG(body)
  \/ \E n \in 1..(MaxQueryListings + 1), body \in PublishUpdates : PutPG(ObjectIdOf(n), body)
  \/ \E n \in 1..MaxQueryListings, body \in {EmptyObject, [published |-> TRUE]},
        apiKey \in ApiKeys :
       PatchPublish(ObjectIdOf(n), body, apiKey)
  \/ \E n \in 1..MaxQueryListings : DeletePG(ObjectIdOf(n))
  \/ \E id \in PublishIds : GetPGById(id, "none")
  \/ \E q \in PublishQueries : GetPG(q)
  \/ \E q \in {EmptyObject, [type |-> "girls"]} : GetSearch(q)
  \/ \E q \in ControllerQueries : GetPGListings(q)
  \/ \E q \in {EmptyObject, [q |-> <<"a">>]} : SearchPGListings(q)
  \/ RouterGet

SpecPublish == Init /\ [][NextPublish]_vars

(***************************************************************************)
(* Filtering: listings that differ in name, city, type and published flag, *)
(* and query strings that combine type, city, search and admin; "." is a   *)
(* search text that is also a regular expression.                          *)
(***************************************************************************)
FilterBodies ==
  {[name |-> <<"a">>, price |-> 5000],
   [name |-> <<"A", ".">>, price |-> 5000, type |-> "girls"],
   [name |-> <<"b">>, price |-> 5000, city |-> <<"a", "b">>, published |-> FALSE],
   [name |-> <<"b">>, price |-> 5000, description |-> <<"B", "A">>, type |-> "girls"]}

FilterQueries ==
  {Part(t # "", "type", t) @@ Part(c # <<>>, "city", c) @@ Part(s # <<>>, "search", s)
     @@ Part(a # "", "admin", a) :
       t \in {"", "all", "girls"}, c \in {<<>>, <<"A">>},
       s \in {<<>>, <<"a">>, <<".">>}, a \in {"", "true"}}

NextFilter ==
  \/ \E e \in ConnectionEvents : ConnectionEvent(e)
  \/ \E body \in FilterBodies : nextId < MaxQueryListings /\ PostPG(body)
  \/ \E q \in FilterQueries : GetPG(q)

SpecFilter == Init /\ [][NextFilter]_vars

(***************************************************************************)
(* Price bounds: listings priced 5000, 8000 and 12000, and price bounds    *)
(* below, at and between them, each supplied alone or together.            *)
(***************************************************************************)
PriceBodies == {[name |-> <<"a">>, price |-> p] : p \in {5000, 8000, 12000}}

PriceQueries ==
  {Part(lo # "", "minPrice", lo) @@ Part(hi # "", "maxPrice", hi) :
     lo \in {"", "6000", "8000"}, hi \in {"", "8000", "10000"}}

NextPrice ==
  \/ \E e \in ConnectionEvents : ConnectionEvent(e)
  \/ \E body \in PriceBodies : nextId < MaxPriceListings /\ PostPG(body)
  \/ \E q \in PriceQueries : GetPG(q)

SpecPrice == Init /\ [][NextPrice]_vars

(***************************************************************************)
(* Arguments: query strings whose price bounds are not numerals and whose  *)
(* type is not a type of the schema, next to well-formed ones.             *)
(***************************************************************************)
ArgBodies ==
  {[name |-> <<"a">>, price |-> 5000],
   [name |-> <<"b">>, price |-> 8000, type |-> "girls"]}

ArgQueries ==
  {EmptyObject, [minPrice |-> "abc"], [maxPrice |-> "abc"], [minPrice |-> "6000"],
   [type |-> "xyz"], [type |-> "girls"], [type |-> "all"],
   [type |-> "xyz", minPrice |-> "6000"]}

NextArgs ==
  \/ \E e \in ConnectionEvents : ConnectionEvent(e)
  \/ \E body \in ArgBodies : nextId < MaxQueryListings /\ PostPG(body)
  \/ \E q \in ArgQueries : GetPG(q)

SpecArgs == Init /\ [][NextArgs]_vars

(***************************************************************************)
(* Pages: up to MaxPageListings published listings, read page by page.     *)
(***************************************************************************)
PageQueries ==
  {Part(p # "", "page", p) @@ Part(l # "", "limit", l) :
     p \in {"", "1", "2", "3"}, l \in {"", "3", "10"}}

NextPage ==
  \/ \E e \in ConnectionEvents : ConnectionEvent(e)
  \/ nextId < MaxPageListings /\ PostPG([name |-> <<"a">>, price |-> 5000])
  \/ \E q \in PageQueries : GetPG(q)

SpecPage == Init /\ [][NextPage]_vars

(***************************************************************************)
(* Reviews, one request at a time: three users review one listing, and     *)
(* each changes and deletes the review that is theirs.                     *)
(***************************************************************************)
ReviewListingBody == [name |-> <<"a">>, price |-> 5000]

ReviewBodies ==
  {[pgId |-> ObjectIdOf(1), rating |-> r, title |-> "t", comment |-> "c"] : r \in {3, 4, 5}}
  \cup {[pgId |-> ObjectIdOf(1), rating |-> 4, title |-> "t"]}

ReviewUpdates == {[rating |-> 3], [rating |-> 6]}

ReviewIds == {ObjectIdOf(n) : n \in 1..MaxReviews}

\* the review with this id is stored and is the user's
IsAuthor(user, id) ==
  ReviewIndexOfId(id) # 0 /\ reviews[ReviewIndexOfId(id)].user = user

NextReviews ==
  \/ ConnectionEvent("connected")
  \/ AllIdle /\ nextId < 1 /\ PostPG(ReviewListingBody)
  \/ \E user \in Users, body \in ReviewBodies :
       AllIdle /\ nextReviewId < MaxReviews /\ PostReview(1, user, body)
  \/ PostReviewSave(1)
  \/ Aggregate(1)
  \/ WriteRating(1)
  \/ \E user \in Users, id \in ReviewIds, body \in ReviewUpdates :
       AllIdle /\ IsAuthor(user, id) /\ PutReview(1, user, id, body)
  \/ PutReviewSave(1)
  \/ \E user \in Users, id \in ReviewIds :
       AllIdle /\ IsAuthor(user, id) /\ DeleteReview(1, user, id)
  \/ DeleteReviewDeleteOne(1)

SpecReviews == Init /\ [][NextReviews]_vars

(***************************************************************************)
(* Ownership of the rating: one user reviews the listing while the listing *)
(* is updated, published and unpublished through the server.               *)
(***************************************************************************)
ListingUpdates == {[rating |-> 10], [reviewCount |-> 7], [name |-> <<"b">>]}

NextOwned ==
  \/ ConnectionEvent("connected")
  \/ AllIdle /\ nextId < 1 /\ PostPG(ReviewListingBody)
  \/ \E body \in ReviewBodies :
       AllIdle /\ nextReviewId < 1 /\ PostReview(1, "u1", body)
  \/ PostReviewSave(1)
  \/ Aggregate(1)
  \/ WriteRating(1)
  \/ \E body \in ListingUpdates : AllIdle /\ PutPG(ObjectIdOf(1), body)
  \/ \E body \in {EmptyObject, [published |-> TRUE]} :
       AllIdle /\ PatchPublish(ObjectIdOf(1), body, "valid")

SpecOwned == Init /\ [][NextOwned]_vars

(***************************************************************************)
(* Authors: two users and an admin try to change and delete each other's   *)
(* reviews, with and without a token.                                      *)
(***************************************************************************)
AuthorBodies == {[pgId |-> ObjectIdOf(1), rating |-> 4, title |-> "t", comment |-> "c"]}

AuthorIds == {ObjectIdOf(n) : n \in 1..MaxAuthorReviews} \cup {<<"x">>}

NextAuthors ==
  \/ ConnectionEvent("connected")
  \/ AllIdle /\ nextId < 1 /\ PostPG(ReviewListingBody)
  \/ \E user \in Users \cup {""}, body \in AuthorBodies :
       AllIdle /\ nextReviewId < MaxAuthorReviews /\ PostReview(1, user, body)
  \/ PostReviewSave(1)
  \/ Aggregate(1)
  \/ WriteRating(1)
  \/ \E user \in Users \cup {""}, id \in AuthorIds :
       AllIdle /\ PutReview(1, user, id, [rating |-> 5])
  \/ PutReviewSave(1)
  \/ \E user \in Users \cup {""}, id \in AuthorIds :
       AllIdle /\ DeleteReview(1, user, id)
  \/ DeleteReviewDeleteOne(1)

SpecAuthors == Init /\ [][NextAuthors]_vars

(***************************************************************************)
(* Reviews, overlapping: two users send creates and updates for one        *)
(* listing, each request taking its steps whenever it is its turn.         *)
(***************************************************************************)
RaceUsers == {"u1", "u2"}

RaceBodies ==
  {[pgId |-> ObjectIdOf(1), rating |-> r, title |-> "t", comment |-> "c"] : r \in {4, 5}}

NextRace ==
  \/ ConnectionEvent("connected")
  \/ AllIdle /\ nextId < 1 /\ PostPG(ReviewListingBody)
  \/ \E s \in Slots, user \in RaceUsers, body \in RaceBodies :
       nextReviewId < MaxRaceReviews /\ PostReview(s, user, body)
  \/ \E s \in Slots : PostReviewSave(s)
  \/ \E s \in Slots : Aggregate(s)
  \/ \E s \in Slots : WriteRating(s)

SpecRace == Init /\ [][NextRace]_vars

(***************************************************************************)
(* Bookings, one request at a time: two users and an admin book a listing, *)
(* cancel bookings and set their status.                                   *)
(***************************************************************************)
BookingBodies ==
  {[pgId |-> ObjectIdOf(1), roomType |-> "single", duration |-> 1],
   [pgId |-> ObjectIdOf(1), roomType |-> "single", duration |-> 13],
   [pgId |-> ObjectIdOf(2), roomType |-> "single", duration |-> 1]}

BookingIds == {ObjectIdOf(n) : n \in 1..(MaxBookings + 1)}

StatusBodies == {[status |-> t] : t \in {"confirmed", "completed", "done"}}

NextBookings ==
  \/ ConnectionEvent("connected")
  \/ nextId < 1 /\ PostPG(ReviewListingBody)
  \/ \E user \in {"u1", "u2", ""}, body \in BookingBodies :
       AllIdle /\ Len(bookings) < MaxBookings /\ PostBooking(user, body)
  \/ \E user \in Users \cup {""}, id \in BookingIds :
       AllIdle /\ PutBookingCancel(1, user, id)
  \/ \E user \in Users \cup {""}, id \in BookingIds, body \in StatusBodies :
       AllIdle /\ PutBookingStatus(1, user, id, body)
  \/ BookingSave(1)

SpecBookings == Init /\ [][NextBookings]_vars

(***************************************************************************)
(* The API key: every mutating listing route, asked without a key, with a  *)
(* wrong key and with the configured key, one request at a time.           *)
(***************************************************************************)
KeyBodies == {[name |-> <<"a">>, price |-> 5000]}

KeyUpdates == {[name |-> <<"b">>]}

KeyFlags == {[published |-> TRUE, featured |-> TRUE, verified |-> TRUE]}

KeyIds == {ObjectIdOf(n) : n \in 1..2}

NextKeys ==
  \/ \E e \in ConnectionEvents : ConnectionEvent(e)
  \/ \E body \in KeyBodies, apiKey \in ApiKeys :
       AllIdle /\ nextId < MaxKeyListings /\ PostPGRequest(body, apiKey)
  \/ \E id \in KeyIds, body \in KeyUpdates, apiKey \in ApiKeys :
       AllIdle /\ PutPGRequest(id, body, apiKey)
  \/ \E id \in KeyIds, apiKey \in ApiKeys : AllIdle /\ DeletePGRequest(id, apiKey)
  \/ \E id \in KeyIds, body \in KeyFlags, apiKey \in ApiKeys :
       AllIdle /\ PatchPublish(id, body, apiKey)
  \/ \E id \in KeyIds, body \in KeyFlags, apiKey \in ApiKeys :
       AllIdle /\ PatchFeature(id, body, apiKey)
  \/ \E id \in KeyIds, body \in KeyFlags, apiKey \in ApiKeys :
       AllIdle /\ PatchVerify(id, body, apiKey)
  \/ \E apiKey \in ApiKeys :
       AllIdle /\ nextId + Len(SampleListings) <= MaxKeyListings /\ PostSampleData(1, apiKey)
  \/ SampleSave(1)

SpecKeys == Init /\ [][NextKeys]_vars

(***************************************************************************)
(* Sample data: calls of POST /api/pg/sample-data with the configured key  *)
(* on a collection that starts empty, their steps interleaved.             *)
(***************************************************************************)
NextSample ==
  \/ \E e \in ConnectionEvents : ConnectionEvent(e)
  \/ \E s \in Slots : PostSampleData(s, "valid")
  \/ \E s \in Slots : SampleSave(s)

SpecSample == Init /\ [][NextSample]_vars

(***************************************************************************)
(* Missing listings: updates and deletes of listings that exist, that      *)
(* never existed and that another request deletes in between.              *)
(***************************************************************************)
MissingBodies == {[name |-> <<"a">>, price |-> 5000]}

MissingUpdates == {[name |-> <<"b">>], [price |-> 6000]}

MissingIds == {ObjectIdOf(n) : n \in 1..(MaxMissingListings + 1)}

NextMissing ==
  \/ \E e \in ConnectionEvents : ConnectionEvent(e)
  \/ \E body \in MissingBodies : nextId < MaxMissingListings /\ PostPG(body)
  \/ \E s \in Slots, id \in MissingIds, body \in MissingUpdates : PutPGFind(s, id, body)
  \/ \E s \in Slots : PutPGUpdate(s)
  \/ \E s \in Slots, id \in MissingIds : DeletePGFind(s, id)
  \/ \E s \in Slots : DeletePGDelete(s)

SpecMissing == Init /\ [][NextMissing]_vars

(***************************************************************************)
(* The id strategy: identifiers of 24 hexadecimal characters, of 12        *)
(* characters (valid for ObjectId.isValid), of 24 other characters, padded *)
(* with a space, and short ones.                                           *)
(***************************************************************************)
TwelveChars == [i \in 1..12 |-> "a"]

IdStrategyBodies == {[name |-> <<"a">>, price |-> 5000], [name |-> TwelveChars, price |-> 5000]}

IdStrategyIds ==
  {ObjectIdOf(n) : n \in 1..(MaxIdListings + 1)}
  \cup {UpperCaseId(1), <<" ">> \o ObjectIdOf(1), TwelveChars, [i \in 1..IdLen |-> "s"],
        <<"a">>, <<"a", "b">>, <<"n", "u", "l", "l">>}

NextIdStrategy ==
  \/ \E e \in ConnectionEvents : ConnectionEvent(e)
  \/ \E body \in IdStrategyBodies : nextId < MaxIdListings /\ PostPG(body)
  \/ \E id \in IdStrategyIds, apiKey \in {"none", "valid"} : GetPGById(id, apiKey)

SpecIdStrategy == Init /\ [][NextIdStrategy]_vars

(***************************************************************************)
(* Stale ratings: u1 and u2 send overlapping creates for one listing,      *)
(* which can leave its rating stale; u3's create and every update and      *)
(* delete then run with no other request under way.                        *)
(***************************************************************************)
StaleBodies ==
  {[pgId |-> ObjectIdOf(1), rating |-> r, title |-> "t", comment |-> "c"] : r \in {4, 5}}

StaleUpdates == {[rating |-> 3]}

StaleIds == {ObjectIdOf(n) : n \in 1..MaxStaleReviews}

\* a request that is to run alone is under way
SoloInFlight ==
  \E s \in Slots : requests[s].op \in {"updateReview", "deleteReview"} \/ requests[s].user = "u3"

NextStale ==
  \/ ConnectionEvent("connected")
  \/ AllIdle /\ nextId < 1 /\ PostPG(ReviewListingBody)
  \/ \E s \in Slots, user \in RaceUsers, body \in StaleBodies :
       ~SoloInFlight /\ nextReviewId < MaxStaleReviews /\ PostReview(s, user, body)
  \/ \E body \in StaleBodies :
       AllIdle /\ nextReviewId < MaxStaleReviews /\ PostReview(1, "u3", body)
  \/ \E s \in Slots : PostReviewSave(s)
  \/ \E s \in Slots : Aggregate(s)
  \/ \E s \in Slots : WriteRating(s)
  \/ \E user \in Users, id \in StaleIds, body \in StaleUpdates :
       AllIdle /\ IsAuthor(user, id) /\ PutReview(1, user, id, body)
  \/ PutReviewSave(1)
  \/ \E user \in Users, id \in StaleIds :
       AllIdle /\ IsAuthor(user, id) /\ DeleteReview(1, user, id)
  \/ DeleteReviewDeleteOne(1)

SpecStale == Init /\ [][NextStale]_vars

(***************************************************************************)
(* Failing listing writes: review creates one at a time, the listing write *)
(* of the recomputation succeeding or failing.                             *)
(***************************************************************************)
FailureBodies ==
  {[pgId |-> ObjectIdOf(1), rating |-> r, title |-> "t", comment |-> "c"] : r \in {3, 4, 5}}

NextFailure ==
  \/ ConnectionEvent("connected")
  \/ AllIdle /\ nextId < 1 /\ PostPG(ReviewListingBody)
  \/ \E user \in Users, body \in FailureBodies :
       AllIdle /\ nextReviewId < MaxFailureReviews /\ PostReview(1, user, body)
  \/ PostReviewSave(1)
  \/ Aggregate(1)
  \/ WriteRating(1)
  \/ WriteRatingFails(1)

SpecFailure == Init /\ [][NextFailure]_vars

(***************************************************************************)
(* The range of rating and reviewCount: creates and updates that send      *)
(* values inside and outside the range, the sample data, and reviews, one  *)
(* request at a time.                                                      *)
(***************************************************************************)
RangeBodies ==
  {[name |-> <<"a">>, price |-> 5000],
   [name |-> <<"a">>, price |-> 5000, rating |-> 60],
   [name |-> <<"a">>, price |-> 5000, rating |-> 0 - 10],
   [name |-> <<"a">>, price |-> 5000, reviewCount |-> 0 - 3]}

RangeUpdates == {[rating |-> 60], [rating |-> 50], [rating |-> 0 - 10], [reviewCount |-> 0 - 3]}

RangeReviews ==
  {[pgId |-> ObjectIdOf(1), rating |-> r, title |-> "t", comment |-> "c"] : r \in {1, 5}}

NextRange ==
  \/ ConnectionEvent("connected")
  \/ \E body \in RangeBodies : AllIdle /\ nextId < MaxRangeListings /\ PostPG(body)
  \/ \E body \in RangeUpdates : AllIdle /\ PutPG(ObjectIdOf(1), body)
  \/ AllIdle /\ nextId + Len(SampleListings) <= MaxRangeListings /\ PostSampleData(1, "valid")
  \/ SampleSave(1)
  \/ \E user \in RaceUsers, body \in RangeReviews :
       AllIdle /\ nextReviewId < MaxRangeReviews /\ PostReview(1, user, body)
  \/ PostReviewSave(1)
  \/ Aggregate(1)
  \/ WriteRating(1)

SpecRange == Init /\ [][NextRange]_vars

(***************************************************************************)
(* The references of reviews: reviews for listings that exist, that were   *)
(* deleted and that never existed, and deletes of listings with reviews,   *)
(* one request at a time.                                                  *)
(***************************************************************************)
IntegrityBodies ==
  {[pgId |-> ObjectIdOf(n), rating |-> 4, title |-> "t", comment |-> "c"] :
     n \in 1..(MaxIntegrityListings + 1)}

NextIntegrity ==
  \/ ConnectionEvent("connected")
  \/ AllIdle /\ nextId < MaxIntegrityListings /\ PostPG(ReviewListingBody)
  \/ \E n \in 1..MaxIntegrityListings : AllIdle /\ DeletePG(ObjectIdOf(n))
  \/ \E user \in RaceUsers, body \in IntegrityBodies :
       AllIdle /\ nextReviewId < MaxIntegrityReviews /\ PostReview(1, user, body)
  \/ PostReviewSave(1)
  \/ Aggregate(1)
  \/ WriteRating(1)

SpecIntegrity == Init /\ [][NextIntegrity]_vars

(***************************************************************************)
(* The connection flag: every connection event, at any moment, also        *)
(* between the steps of a request, and the listing handlers of the server. *)
(***************************************************************************)
FlagBodies == {[name |-> <<"a">>, price |-> 5000]}

FlagUpdates == {[name |-> <<"b">>]}

FlagIds == {ObjectIdOf(1), <<"n", "u", "l", "l">>}

NextFlag ==
  \/ \E e \in ConnectionEvents : ConnectionEvent(e)
  \/ \E body \in FlagBodies : AllIdle /\ nextId < MaxFlagListings /\ PostPG(body)
  \/ \E body \in FlagUpdates : AllIdle /\ PutPGFind(1, ObjectIdOf(1), body)
  \/ PutPGUpdate(1)
  \/ AllIdle /\ DeletePGFind(1, ObjectIdOf(1))
  \/ DeletePGDelete(1)
  \/ \E apiKey \in ApiKeys : AllIdle /\ PatchPublish(ObjectIdOf(1), EmptyObject, apiKey)
  \/ AllIdle /\ nextId + Len(SampleListings) <= MaxFlagListings /\ PostSampleData(1, "valid")
  \/ SampleSave(1)
  \/ \E id \in FlagIds : AllIdle /\ GetPGById(id, "valid")
  \/ AllIdle /\ GetPG(EmptyObject)
  \/ AllIdle /\ GetSearch(EmptyObject)

SpecFlag == Init /\ [][NextFlag]_vars

(***************************************************************************)
(* Properties of GET /api/pg/:id, checked under SpecResolve.               *)
(***************************************************************************)
\* the last request was a GET /api/pg/:id whose handler went to the store
ResolverRan == res.op = "getById" /\ res.queries # <<>>

StoredDocs == Range(listings)

\* the identifier is the id of a stored listing
IsStoredId(id) == \E d \in StoredDocs : d._id = ToLowerCase(id)

SlugHit(id) == BySlugIndex(id) # 0

NameHit(id) == \E d \in StoredDocs : MatchesWhole(NamePattern(id), d.name)

\* C1: the strategies are applied in the order id, slug, name, broad and the
\* first hit is returned: an id hit is answered 'ObjectId' with that listing
\* whatever else matches, a slug hit is preferred to a name or broad hit, and
\* a name hit to a broad hit.
C1_StrategyOrder ==
  ResolverRan =>
    LET id == Trim(res.req) IN
      /\ IsStoredId(id) =>
           /\ res.foundBy = "ObjectId"
           /\ res.data[1]._id = ToLowerCase(id)
      /\ (~IsStoredId(id) /\ SlugHit(id)) =>
           /\ res.foundBy = "slug"
           /\ res.data[1] = listings[BySlugIndex(id)]
      /\ (~IsStoredId(id) /\ ~SlugHit(id) /\ NameHit(id)) =>
           /\ res.foundBy = "name"
           /\ MatchesWhole(NamePattern(id), res.data[1].name)
      /\ res.foundBy = "broad" =>
           /\ ~IsStoredId(id) /\ ~SlugHit(id) /\ ~NameHit(id)
           /\ BroadMatches(id, res.data[1])

\* a listing was found by its id although another listing has that id as its name
C1_IdPreferredWitness ==
  /\ ResolverRan
  /\ res.foundBy = "ObjectId"
  /\ \E d \in StoredDocs :
       /\ d._id # res.data[1]._id
       /\ MatchesWhole(NamePattern(Trim(res.req)), d.name)

\* the identifier is the name with spaces and hyphens interchanged, whatever the case
RECURSIVE SameNameUpToSeparators(_, _)
SameNameUpToSeparators(id, name) ==
  IF id = <<>> \/ name = <<>> THEN id = name
  ELSE /\ \/ LowerOf(Head(id)) = LowerOf(Head(name))
          \/ {Head(id), Head(name)} \subseteq {" ", "-"}
       /\ SameNameUpToSeparators(Tail(id), Tail(name))

\* needle occurs in hay, case ignored
ContainsIgnoringCase(needle, hay) ==
  \E i \in 1..(Len(hay) + 1) :
    /\ i + Len(needle) - 1 <= Len(hay)
    /\ ToLowerCase(SubSeq(hay, i, i + Len(needle) - 1)) = ToLowerCase(needle)

\* C2: an identifier that is the name of a stored listing, spaces and hyphens
\* interchanged and case ignored, and that no id or slug matches, is answered
\* with that listing by the name strategy; a mere proper substring of a name
\* is not matched by the name strategy.
C2_NameStrategy ==
  ResolverRan =>
    LET id == Trim(res.req) IN
      /\ (/\ ~IsStoredId(id) /\ ~SlugHit(id)
          /\ \E d \in StoredDocs : SameNameUpToSeparators(id, d.name)) =>
           /\ res.foundBy = "name"
           /\ SameNameUpToSeparators(id, res.data[1].name)
      /\ res.foundBy = "name" =>
           ~(Len(id) < Len(res.data[1].name) /\ ContainsIgnoringCase(id, res.data[1].name))

\* C3: a listing created through POST /api/pg is found again by the slug
\* generated from its name, through the slug strategy.
C3_SlugRoundTrip ==
  (/\ ResolverRan
   /\ res.req # <<>>
   /\ ~IsObjectIdString(res.req)
   /\ \E d \in StoredDocs : GenerateSlug(d.name) = res.req) =>
    /\ res.foundBy = "slug"
    /\ GenerateSlug(res.data[1].name) = res.req

\* C4: an empty identifier and the literals 'undefined' and 'null' are
\* answered 400 without any call on the listing store.
C4_MissingIdRejected ==
  /\ \A rawId \in {<<>>, <<"u", "n", "d", "e", "f", "i", "n", "e", "d">>, <<"n", "u", "l", "l">>} :
       /\ GetPGByIdHandler(rawId).status = 400
       /\ GetPGByIdHandler(rawId).queries = <<>>
  /\ (res.op = "getById" /\ IsMissingId(res.req)) =>
       /\ res.status = 400
       /\ ~res.success
       /\ res.queries = <<>>

\* 'null' was requested of a connected server holding listings, and rejected
C4_NullRejectedWitness ==
  /\ res.op = "getById"
  /\ res.req = <<"n", "u", "l", "l">>
  /\ res.status = 400
  /\ res.connected
  /\ listings # <<>>

\* C5: an identifier that matches no stored listing under any strategy is
\* answered 404 with success = false, never 500, while the store is connected.
C5_NotFound ==
  (/\ ResolverRan
   /\ LET id == Trim(res.req) IN
        /\ ~IsStoredId(id) /\ ~SlugHit(id) /\ ~NameHit(id)
        /\ \A d \in StoredDocs : ~BroadMatches(id, d)) =>
    /\ res.status = 404
    /\ ~res.success

(***************************************************************************)
(* Properties of the listing and search endpoints.  A response is compared *)
(* with the collection of the state it is in: every request that changes   *)
(* the collection replaces the response.                                   *)
(***************************************************************************)
\* the last request reached the handler of GET /api/pg/:id or GET /api/pg
\* while the connection flag was false
AnsweredWhileDisconnected ==
  /\ res.op \in {"getById", "list"}
  /\ ~res.connected
  /\ res.status \notin {401, 403}

Listed == res.op = "list" /\ res.status = 200

IsAdmin(q) == Has(q, "admin") /\ q.admin = "true"

\* C7: GET /api/pg without an admin parameter returns exactly the published
\* listings (of the requested type, if any), and with admin=true the
\* published and the unpublished ones alike.
C7_PublishedFilter ==
  Listed =>
    LET ofType == {d \in StoredDocs : Has(res.req, "type") => d.type = res.req.type} IN
      /\ ~Has(res.req, "admin") => Range(res.data) = {d \in ofType : d.published}
      /\ IsAdmin(res.req) => Range(res.data) = ofType
      /\ Len(res.data) = Cardinality(Range(res.data))

\* of one published and one unpublished listing the plain request returned
\* exactly the published one
C7_OnlyPublishedWitness ==
  /\ Listed
  /\ res.req = EmptyObject
  /\ Len(listings) = 2
  /\ \E d \in StoredDocs : d.published
  /\ \E d \in StoredDocs : ~d.published
  /\ Len(res.data) = 1
  /\ res.data[1].published

\* C8: no unpublished listing appears in the result of GET /api/search, of
\* getPGListings or searchPGListings called without a published parameter, or
\* of the router's GET /api/pg.
C8_UnpublishedHidden ==
  (/\ res.op \in {"search", "getPGListings", "searchPGListings", "routerGet"}
   /\ res.status = 200
   /\ ~Has(res.req, "published")) =>
    \A d \in Range(res.data) : d.published

\* the conditions a query string imposes on a listing: containment is plain
\* containment of the text, case ignored
MeetsEveryCondition(d, q) ==
  /\ (Has(q, "type") /\ q.type # "all") => d.type = q.type
  /\ Has(q, "city") => ContainsIgnoringCase(q.city, d.city)
  /\ Has(q, "search") =>
       \E f \in {"name", "address", "city", "description"} :
         ContainsIgnoringCase(q.search, d[f])
  /\ Has(q, "minPrice") => d.price >= NumberOf(q.minPrice)
  /\ Has(q, "maxPrice") => d.price <= NumberOf(q.maxPrice)
  /\ ~IsAdmin(q) => d.published

\* C9: the listings counted in totalItems are exactly the stored listings
\* that meet every supplied condition; an absent parameter imposes none.
C9_ConjunctiveFilter ==
  Listed =>
    /\ res.pagination.totalItems =
         Cardinality({i \in 1..Len(listings) : MeetsEveryCondition(listings[i], res.req)})
    /\ Range(res.data) = {d \in StoredDocs : MeetsEveryCondition(d, res.req)}

\* the prices of the listings returned
PricesOf(docs) == {d.price : d \in Range(docs)}

\* C10: minPrice and maxPrice are inclusive bounds, each usable alone: exactly
\* the listings with minPrice <= price <= maxPrice are returned, and of the
\* prices 5000, 8000, 12000 the bounds 6000 and 10000 leave only 8000.
C10_InclusivePriceBounds ==
  Listed =>
    /\ Range(res.data) =
         {d \in StoredDocs :
            /\ Has(res.req, "minPrice") => NumberOf(res.req.minPrice) <= d.price
            /\ Has(res.req, "maxPrice") => d.price <= NumberOf(res.req.maxPrice)}
    /\ (/\ res.req = [minPrice |-> "6000", maxPrice |-> "10000"]
        /\ PricesOf(listings) = {5000, 8000, 12000}) =>
         PricesOf(res.data) = {8000}
    /\ Len(res.data) = Len(SelectSeq(listings, LAMBDA d : d \in Range(res.data)))

\* of the prices 5000, 8000, 12000 a request with both bounds at 8000 returned
\* the listing priced exactly at the bounds
C10_AtBoundWitness ==
  /\ Listed
  /\ res.req = [minPrice |-> "8000", maxPrice |-> "8000"]
  /\ PricesOf(listings) = {5000, 8000, 12000}
  /\ PricesOf(res.data) = {8000}

\* a price bound that is present and is not a numeral
BadPriceBound(q) ==
  \/ Has(q, "minPrice") /\ q.minPrice \notin NumericStrings
  \/ Has(q, "maxPrice") /\ q.maxPrice \notin NumericStrings

\* a type that is present and is neither a type of the schema nor 'all'
BadType(q) == Has(q, "type") /\ q.type \notin ListingTypes \cup {"all"}

\* C11: a listing query with a non-numeric price bound or with a type outside
\* the enum (and not 'all') is answered with a client error (4xx) and makes no
\* call on the store.
C11_InvalidArgument ==
  (/\ res.op = "list"
   /\ res.connected
   /\ BadPriceBound(res.req) \/ BadType(res.req)) =>
    /\ res.status \in 400..499
    /\ ~res.success
    /\ res.queries = <<>>

Min(a, b) == IF a < b THEN a ELSE b

Max(a, b) == IF a > b THEN a ELSE b

\* the least n with n * limit >= total
PagesNeeded(total, limit) ==
  CHOOSE n \in 0..total : n * limit >= total /\ (n = 0 \/ (n - 1) * limit < total)

\* C12: for T matching listings, page p >= 1 and limit L >= 1, GET /api/pg
\* returns totalItems = T, totalPages = ceil(T / L), itemsPerPage = L,
\* currentPage = p, hasNextPage = (p < totalPages), hasPrevPage = (p > 1) and
\* min(L, max(0, T - (p - 1) * L)) listings; of 25 listings with limit 10,
\* page 1 has 10 and page 3 has 5.
C12_Pagination ==
  Listed =>
    LET T == Cardinality({i \in 1..Len(listings) : MeetsEveryCondition(listings[i], res.req)})
        p == IF Has(res.req, "page") THEN NumberOf(res.req.page) ELSE 1
        L == IF Has(res.req, "limit") THEN NumberOf(res.req.limit) ELSE 10
        pg == res.pagination
    IN /\ pg.totalItems = T
       /\ pg.totalPages = PagesNeeded(T, L)
       /\ pg.itemsPerPage = L
       /\ pg.currentPage = p
       /\ pg.hasNextPage = (p < PagesNeeded(T, L))
       /\ pg.hasPrevPage = (p > 1)
       /\ Len(res.data) = Min(L, Max(0, T - (p - 1) * L))
       /\ (T = 25 /\ L = 10 /\ p = 1) =>
            Len(res.data) = 10 /\ pg.totalPages = 3 /\ pg.hasNextPage /\ ~pg.hasPrevPage
       /\ (T = 25 /\ L = 10 /\ p = 3) =>
            Len(res.data) = 5 /\ ~pg.hasNextPage /\ pg.hasPrevPage

\* the third page of 25 listings, ten to a page, was read
C12_LastPageWitness ==
  /\ Listed
  /\ Len(listings) = 25
  /\ res.req = [page |-> "3", limit |-> "10"]
  /\ Len(res.data) = 5

(***************************************************************************)
(* Properties of the reviews router and of the derived rating.  A rating   *)
(* is held in tenths.                                                      *)
(***************************************************************************)
\* the positions of the reviews of a listing
ReviewsFor(pgId) == {i \in 1..Len(reviews) : reviews[i].pgListing = pgId}

RECURSIVE TotalRating(_)
TotalRating(S) ==
  IF S = {} THEN 0
  ELSE LET i == CHOOSE i \in S : TRUE IN reviews[i].rating + TotalRating(S \ {i})

\* the tenth nearest to total / n, the upper one of two equally near
NearestTenth(total, n) ==
  CHOOSE t \in 0..50 : 2 * t * n - n <= 20 * total /\ 20 * total < 2 * t * n + n

\* rating and reviewCount of the listing are those of its stored reviews
RatingIsAggregate(d) ==
  LET S == ReviewsFor(d._id) IN
    /\ d.reviewCount = Cardinality(S)
    /\ d.rating = IF S = {} THEN 0 ELSE NearestTenth(TotalRating(S), Cardinality(S))

\* the ratings of the reviews of a listing, as a bag
RatingsOf(pgId) ==
  [r \in {reviews[i].rating : i \in ReviewsFor(pgId)} |->
     Cardinality({i \in ReviewsFor(pgId) : reviews[i].rating = r})]

\* the last request to complete is of one of these kinds, succeeded, and no
\* request is being handled
Completed(ops) == AllIdle /\ res.op \in ops /\ res.success

\* C13: after a review create or update that ran alone, the listing's
\* reviewCount is the number of its stored reviews and its rating their
\* average rounded to one decimal; ratings 4, 5, 3 give 4.0 and 3.
C13_RatingAfterSave ==
  Completed({"createReview", "updateReview"}) =>
    \A d \in StoredDocs :
      d._id = res.req.pgId =>
        /\ RatingIsAggregate(d)
        /\ RatingsOf(d._id) = (3 :> 1) @@ (4 :> 1) @@ (5 :> 1) =>
             d.rating = 40 /\ d.reviewCount = 3

\* the third of the reviews rated 4, 5 and 3 was created and the listing is
\* rated 4.0 by 3 reviews
C13_ThreeReviewsWitness ==
  /\ Completed({"createReview"})
  /\ \E d \in StoredDocs :
       /\ d._id = res.req.pgId
       /\ RatingsOf(d._id) = (3 :> 1) @@ (4 :> 1) @@ (5 :> 1)
       /\ d.rating = 40
       /\ d.reviewCount = 3

\* C14: after a review delete that ran alone, the listing's reviewCount is
\* the number of the remaining reviews and its rating their rounded average,
\* and both are 0 when no review remains.
C14_RatingAfterDelete ==
  Completed({"deleteReview"}) =>
    \A d \in StoredDocs : d._id = res.req.pgId => RatingIsAggregate(d)

\* C15: a step that is not a step of a review request leaves rating and
\* reviewCount of every listing that has a review as they are.
C15_RatingOwned ==
  [][requests' = requests =>
       \A i \in 1..Len(listings) :
         ReviewsFor(listings[i]._id) # {} =>
           /\ i <= Len(listings')
           /\ listings'[i].rating = listings[i].rating
           /\ listings'[i].reviewCount = listings[i].reviewCount]_vars

\* no two stored reviews are of the same user for the same listing
OneReviewPerPair ==
  \A i, j \in 1..Len(reviews) :
    (reviews[i].user = reviews[j].user /\ reviews[i].pgListing = reviews[j].pgListing) => i = j

\* a step in which a review create ends with an error
CreateRejected ==
  /\ res'.op = "createReview"
  /\ ~res'.success
  /\ \/ res' # res
     \/ \E s \in Slots : requests[s].op = "createReview" /\ requests'[s] = Idle

\* C16: at most one review is stored per (user, listing), also when creates
\* of the same user for the same listing overlap; a create that is rejected
\* stores no review and leaves every listing as it is.
C16_OneReviewPerPair ==
  /\ []OneReviewPerPair
  /\ [][CreateRejected => reviews' = reviews /\ listings' = listings]_vars

\* of two overlapping creates of one user the second was rejected by the
\* unique index
C16_RaceRejectedWitness ==
  /\ res.op = "createReview"
  /\ res.message = "E11000 duplicate key error"
  /\ \E i \in 1..Len(reviews) : reviews[i].user = res.req.user
  /\ listings # <<>>

\* the user holds the admin role
IsAdminUser(user) == user = "u3"

\* the stored review with this id, if any, is not the user's
NotAuthor(user, id) ==
  \E i \in 1..Len(reviews) : reviews[i]._id = id /\ reviews[i].user # user

\* C17: an update is accepted only from the author and a delete only from the
\* author or an admin; any other authenticated requester is answered 403,
\* and the answer 403 leaves reviews and listings as they are.
C17_AuthorOnly ==
  /\ [](\A s \in Slots :
          /\ requests[s].op = "updateReview" => ~NotAuthor(requests[s].user, requests[s].review)
          /\ requests[s].op = "deleteReview" =>
               ~NotAuthor(requests[s].user, requests[s].review) \/ IsAdminUser(requests[s].user))
  /\ []((AllIdle /\ res.op = "updateReview" /\ res.status # 401
          /\ NotAuthor(res.req.user, res.req.review)) => res.status = 403)
  /\ []((AllIdle /\ res.op = "deleteReview" /\ res.status # 401
          /\ NotAuthor(res.req.user, res.req.review) /\ ~IsAdminUser(res.req.user))
         => res.status = 403)
  /\ [][(res'.op \in {"updateReview", "deleteReview"} /\ res'.status = 403 /\ res' # res)
        => reviews' = reviews /\ listings' = listings]_vars

\* a user without the admin role asked to delete the review of another user
\* and was answered 403
C17_ForbiddenDeleteWitness ==
  /\ res.op = "deleteReview"
  /\ res.status = 403
  /\ NotAuthor(res.req.user, res.req.review)
  /\ listings # <<>>

(***************************************************************************)
(* Properties of the bookings router, checked one request at a time.       *)
(***************************************************************************)
\* a step in which a cancel request gets its answer, having passed protect
CancelAnswered ==
  /\ res'.op = "cancelBooking"
  /\ res'.status # 401
  /\ res' # res

\* the stored booking the request names, before the step
Named(id) == bookings[CHOOSE i \in 1..Len(bookings) : bookings[i]._id = id]

IsStoredBooking(id) == \E i \in 1..Len(bookings) : bookings[i]._id = id

TerminalForCancel(b) == b.status \in {"cancelled", "completed"}

\* what every answer to a cancel obeys: 403 and 400 change nothing, and a
\* cancel is accepted only from the booking's user, for a booking that is
\* neither cancelled nor completed, and makes it cancelled
CancelOutcome ==
  LET q == res'.req IN
    /\ res'.status \in {400, 403, 404} => bookings' = bookings
    /\ res'.status = 200 =>
         /\ Named(q.booking).user = q.user
         /\ ~TerminalForCancel(Named(q.booking))
         /\ \E i \in 1..Len(bookings) :
              /\ bookings[i]._id = q.booking
              /\ bookings' = [bookings EXCEPT ![i].status = "cancelled"]
    /\ (res'.status # 200 /\ IsStoredBooking(q.booking)
        /\ Named(q.booking).user = q.user) => TerminalForCancel(Named(q.booking))

\* C18 as stated: a cancel of a cancelled or completed booking is answered
\* 400 whoever asks, a cancel by another user 403, each leaving the status
\* as it is; otherwise the status becomes cancelled.
C18_CancelAsStated ==
  [][CancelAnswered =>
       LET q == res'.req IN
         /\ CancelOutcome
         /\ (IsStoredBooking(q.booking) /\ TerminalForCancel(Named(q.booking))) =>
              res'.status = 400
         /\ (IsStoredBooking(q.booking) /\ Named(q.booking).user # q.user) =>
              res'.status = 403]_vars

\* C18, amended: a cancel by a user other than the booking's user is answered
\* 403 whatever the status; a cancel by the booking's user of a cancelled or
\* completed booking is answered 400; both leave the status as it is;
\* otherwise the status becomes cancelled.
C18_CancelBooking ==
  [][CancelAnswered =>
       LET q == res'.req IN
         /\ CancelOutcome
         /\ (IsStoredBooking(q.booking) /\ TerminalForCancel(Named(q.booking))
             /\ Named(q.booking).user = q.user) => res'.status = 400
         /\ (IsStoredBooking(q.booking) /\ Named(q.booking).user # q.user) =>
              res'.status = 403]_vars

\* the user of a completed booking asked to cancel it and was answered 400
C18_CompletedRefusedWitness ==
  /\ res.op = "cancelBooking"
  /\ res.status = 400
  /\ IsStoredBooking(res.req.booking)
  /\ Named(res.req.booking).status = "completed"
  /\ Named(res.req.booking).user = res.req.user

(***************************************************************************)
(* Properties of the API key, checked under SpecKeys.                      *)
(***************************************************************************)
\* a step that handles a request to one of the mutating listing routes sent
\* with apiKey
MutatingRequest(apiKey) ==
  \/ \E body \in KeyBodies : PostPGRequest(body, apiKey)
  \/ \E id \in KeyIds, body \in KeyUpdates : PutPGRequest(id, body, apiKey)
  \/ \E id \in KeyIds : DeletePGRequest(id, apiKey)
  \/ \E id \in KeyIds, body \in KeyFlags : PatchPublish(id, body, apiKey)
  \/ \E id \in KeyIds, body \in KeyFlags : PatchFeature(id, body, apiKey)
  \/ \E id \in KeyIds, body \in KeyFlags : PatchVerify(id, body, apiKey)
  \/ PostSampleData(1, apiKey)

\* C19: a request to POST /api/pg, PUT or DELETE /api/pg/:id, PATCH
\* /api/pg/:id/publish, feature or verify, or POST /api/pg/sample-data is
\* answered 401 when it carries no API key and 403 when it carries a wrong
\* one, and the collection is left as it was.
C19_ApiKeyRequired ==
  [][/\ MutatingRequest("none") => res'.status = 401 /\ listings' = listings
     /\ MutatingRequest("wrong") => res'.status = 403 /\ listings' = listings]_vars

(***************************************************************************)
(* Properties of POST /api/pg/sample-data, checked under SpecSample.       *)
(***************************************************************************)
\* how many stored listings have the name of the k-th sample listing
CopiesOfSample(k) ==
  Cardinality({i \in Positions : listings[i].name = SampleListings[k].name})

\* a call has added the sample listings and no call is under way
SampleDataAdded ==
  /\ AllIdle
  /\ res.op = "sampleData"
  /\ res.status = 200

\* C20: no sample listing is ever stored twice, once the calls have ended
\* each sample listing is stored exactly once, and a call that finds the
\* collection non-empty adds nothing.
C20_SampleDataOnce ==
  /\ [](\A k \in 1..Len(SampleListings) : CopiesOfSample(k) <= 1)
  /\ [](SampleDataAdded => \A k \in 1..Len(SampleListings) : CopiesOfSample(k) = 1)
  /\ [][\A s \in Slots : PostSampleData(s, "valid") /\ listings # <<>>
          => listings' = listings /\ requests' = requests]_vars

(***************************************************************************)
(* Properties of PUT and DELETE /api/pg/:id on a missing listing, checked  *)
(* under SpecMissing.                                                      *)
(***************************************************************************)
\* a step in which an update or delete of a well-formed id gets its answer
\* from a handler that found the store connected, while no listing has the id
MissingTargetAnswered ==
  /\ res' # res
  /\ res'.op \in {"put", "delete"}
  /\ res'.message # "Database not connected"
  /\ IsObjectIdString(res'.req)
  /\ IndexOfId(res'.req) = 0

\* C21: PUT and DELETE /api/pg/:id on a well-formed id whose listing is
\* missing answer 404 and leave the store unchanged, also when the listing
\* was deleted between the handler's existence check and its write.
C21_MissingIsNotFound ==
  [][MissingTargetAnswered => res'.status = 404 /\ listings' = listings]_vars

(***************************************************************************)
(* Properties of the id strategy, checked under SpecIdStrategy.            *)
(***************************************************************************)
\* the last request was a GET /api/pg/:id that reached the strategies
StrategiesRan ==
  /\ res.op = "getById"
  /\ res.status \notin {0, 401, 403}
  /\ res.message \notin {"PG ID is required", "Database not connected"}

\* exactly 24 hexadecimal characters
IsStructurallyValid(id) == Len(id) = 24 /\ \A i \in 1..Len(id) : id[i] \in HexChars

\* C22: findById is called only when the trimmed identifier has exactly 24
\* hexadecimal characters; for every other identifier the first call on the
\* store is the slug lookup.
C22_IdStrategyGuard ==
  StrategiesRan =>
    LET id == Trim(res.req) IN
      /\ "findById" \in Range(res.queries) => IsStructurallyValid(id)
      /\ ~IsStructurallyValid(id) => res.queries # <<>> /\ res.queries[1] = "findOne:slug"

\* an identifier of 12 characters, valid for ObjectId.isValid, went to the
\* slug strategy without a findById
C22_TwelveCharsWitness ==
  /\ StrategiesRan
  /\ Len(Trim(res.req)) = 12
  /\ listings # <<>>
  /\ res.queries[1] = "findOne:slug"

(***************************************************************************)
(* Properties of the recomputation when review requests overlap, checked   *)
(* under SpecRace.                                                         *)
(***************************************************************************)
\* C23: whatever the interleaving of the steps (save, aggregate read,
\* listing write) of review creates on one listing, once all of them have
\* completed the listing's reviewCount is the number of its stored reviews
\* and its rating their rounded average.
C23_RecomputationUnderRace ==
  Completed({"createReview"}) =>
    \A d \in StoredDocs : d._id = res.req.pgId => RatingIsAggregate(d)

(***************************************************************************)
(* Properties of the recomputation after a stale rating, checked under     *)
(* SpecStale.                                                              *)
(***************************************************************************)
\* the listing of the last request has the rating and reviewCount of its reviews
ListingConsistent ==
  \A d \in StoredDocs : d._id = res.req.pgId => RatingIsAggregate(d)

\* a review mutation that ran with no other request under way has completed
SoloCompleted ==
  /\ Completed({"createReview", "updateReview", "deleteReview"})
  /\ res.op = "createReview" => res.req.user = "u3"

\* the listing the answer is about has a stale rating or reviewCount
StaleListing(pgId) ==
  \E d \in StoredDocs : d._id = pgId /\ ~RatingIsAggregate(d)

\* C24: a review create, update or delete that runs to its end with no other
\* mutation under way leaves the listing's rating and reviewCount equal to
\* the aggregate of its stored reviews, whatever stale values the listing
\* had before (for a delete: when the values were stale before its last
\* step, which meets the store as the request found it).
C24_ConsistentAfterSoloMutation ==
  [][(/\ res' # res
      /\ SoloCompleted'
      /\ res'.op = "deleteReview" => StaleListing(res'.req.pgId))
     => ListingConsistent']_vars

(***************************************************************************)
(* Properties of a recomputation whose listing write fails, checked under  *)
(* SpecFailure.                                                            *)
(***************************************************************************)
\* the last answer is that of a review create whose recomputation read the
\* aggregate and failed to write the listing
WriteFailed ==
  /\ res.op = "createReview"
  /\ ~res.success
  /\ res.queries = <<"save", "aggregate", "findByIdAndUpdate">>

\* C25: when the listing write of the recomputation triggered by a review
\* create fails after the aggregate read, the request ends with an answer,
\* the listings keep the rating and reviewCount they had, and the review
\* stays stored.
C25_WriteFailureKeepsReview ==
  [][(res' # res /\ WriteFailed') =>
       /\ AllIdle'
       /\ res'.status # 0
       /\ listings' = listings
       /\ (ReviewIndexOfId(res.req.review) # 0)'
       /\ reviews' = reviews]_vars

\* a create was answered after a failed listing write: its review is stored
\* and the listing counts one review less than are stored
C25_StaleAfterFailureWitness ==
  /\ WriteFailed
  /\ AllIdle
  /\ ReviewIndexOfId(res.req.review) # 0
  /\ \E d \in StoredDocs :
       d._id = res.req.pgId /\ d.reviewCount = 1 /\ Cardinality(ReviewsFor(d._id)) = 2

(***************************************************************************)
(* The status of a booking over time, checked under SpecBookings.          *)
(***************************************************************************)
\* C26: a booking is created pending, every change of its status starts
\* from pending, and so a cancelled or completed booking keeps its status.
C26_BookingStateMachine ==
  [][\A i \in 1..Len(bookings') :
       IF i > Len(bookings)
       THEN bookings'[i].status = "pending"
       ELSE bookings'[i].status # bookings[i].status => bookings[i].status = "pending"]_vars

(***************************************************************************)
(* The slug of a listing, checked under SpecPublish.                       *)
(***************************************************************************)
\* C27: the listing that POST /api/pg or PUT /api/pg/:id answers with has a
\* slug, and it is the slug generated from its name.
C27_SlugFollowsName ==
  (res.op \in {"post", "put"} /\ res.success) =>
    \A i \in 1..Len(res.data) :
      /\ Has(res.data[i], "slug")
      /\ res.data[i].slug = GenerateSlug(res.data[i].name)

(***************************************************************************)
(* The range of rating and reviewCount, checked under SpecRange.           *)
(***************************************************************************)
\* C28: every stored listing has a rating from 0 to 5 (held in tenths) and
\* a reviewCount that is a natural number.
C28_RatingInRange ==
  \A d \in StoredDocs :
    /\ d.rating >= 0
    /\ d.rating <= 50
    /\ d.reviewCount \in Nat

(***************************************************************************)
(* The references of reviews, checked under SpecIntegrity.                 *)
(***************************************************************************)
\* every stored review is of a stored listing
ReviewsReferToListings ==
  \A i \in ReviewPositions : IndexOfId(reviews[i].pgListing) # 0

\* a step in which the recomputation writes for a listing id that no stored
\* listing has
RecomputedForMissingListing ==
  /\ res' # res
  /\ res'.op = "createReview"
  /\ res'.success
  /\ IndexOfId(res'.req.pgId) = 0

\* C29: every stored review refers to a stored listing, and a recomputation
\* for a listing id that no stored listing has leaves the listings as they
\* were.
C29_ReviewsReferToListings ==
  /\ []ReviewsReferToListings
  /\ [][RecomputedForMissingListing => listings' = listings]_vars

(***************************************************************************)
(* Properties of the connection flag, checked under SpecFlag.              *)
(***************************************************************************)
\* a step of a listing handler that reads or writes the store: the
\* collection changes, a request goes on to or takes its next step, or an
\* answer reports calls on the model
TouchesStore ==
  \/ listings' # listings
  \/ requests' # requests
  \/ res' # res /\ res'.queries # <<>>

\* a step in which a handler that found the flag false answers (a request
\* that was refused for its API key or for its missing id never gets to the
\* flag)
AnsweredWithFlagFalse ==
  /\ res' # res
  /\ ~isMongoDBConnected
  /\ res'.status \notin {401, 403}
  /\ res'.message # "PG ID is required"

\* C30: the flag is false at first, each connection event leaves it true
\* exactly for connected, open and reconnected, nothing else changes it, a
\* handler that answers while it is false answers 'Database not connected',
\* and no step of a handler reads or writes the store while it is false.
C30_ConnectionFlag ==
  /\ ~isMongoDBConnected
  /\ [][/\ \A e \in ConnectionEvents :
            ConnectionEvent(e) =>
              isMongoDBConnected' = (e \in {"connected", "open", "reconnected"})
        /\ isMongoDBConnected' # isMongoDBConnected =>
             \E e \in ConnectionEvents : ConnectionEvent(e)
        /\ AnsweredWithFlagFalse => res'.message = "Database not connected"
        /\ TouchesStore => isMongoDBConnected]_vars

\* END
=============================================================================
